---- MODULE Spec2Model ----
(***************************************************************************)
(* A model of the job-scraping pipeline of src/scrapers/index.js: the      *)
(* JobScraper class (session, three site adapters, description enricher,   *)
(* aggregator), and of what consumes its result: AIJobAnalyzer, the        *)
(* EmailService, the one-command runner and the API server.                *)
(*                                                                         *)
(* JavaScript strings are modelled as sequences of character codes, so     *)
(* that toLowerCase, trim and cleanText are computed, not assumed.  null   *)
(* is the model value Null.  Every `await` of the code is a point where    *)
(* another pending callback may run; the code between two awaits runs      *)
(* atomically (one event-loop turn) and is one action here.                *)
(***************************************************************************)
EXTENDS Integers, Sequences, FiniteSets, TLC

VARIABLES
    pc,           \* position of scrapeAllSites (the aggregator)
    browser,      \* this.browser: "null", "open" or "closed"
    context,      \* this.context: "null" or "open"
    closeCalls,   \* number of browser.close() calls made
    loadCalls,    \* number of loadCookies() calls made
    saveCalls,    \* number of saveCookies() calls made
    cookieOps,    \* how loadCookies and saveCookies went: "none" (not yet), "ok", "failed"
    result,       \* the value scrapeAllSites resolved with
    cfg,          \* the configuration object (static)
    web,          \* what the pages of this run may do (environment)
    apc,          \* per site: position of the adapter
    aurl,         \* per site: index of the search URL being tried (0 before the loop and after a break)
    acards,       \* per site: jobCards, the cards listed on the page
    ai,           \* per site: loop variable i of the card loop
    ajobs,        \* per site: the jobs array
    apage,        \* per site: the search page: "none", "open", "closed"
    firstSettled, \* the site whose adapter settled first, "none" before
    etargets,     \* per site: targets.length of the running enrichment
    eindex,       \* per site: index
    eactive,      \* per site: active
    ecompleted,   \* per site: completed
    eresolved,    \* per site: number of resolve() calls of the enrichment promise
    fetch,        \* per site, per job: "none", "nav", "extract", "done"
    fstarted,     \* per site, per job: number of fetchJobDescription calls
    dwrites,      \* per site, per job: number of writes of job.description
    epages,       \* per site: description pages opened and not closed
    fhappened,    \* per site, per job: what the job's description page did
    fnIn,         \* input of a pure function under check
    fnOut,        \* its output
    rpc,          \* position of the component consuming the jobs ("off": none runs)
    acfg,         \* config.ai_analysis / config.email and process.env, as read by it
    bjobs,        \* the jobs argument of analyzeBatch
    analyzed,     \* analyzedJobs
    batch,        \* the value analyzeBatch resolved with
    mailIn,       \* the analysisResult argument of sendJobReport
    mailCalls,    \* number of transporter.sendMail calls made
    mret,         \* the value sendJobReport resolved with
    apiCfg,       \* GET /api/config: the configurations served (two servers side by side)
    apiBody       \* GET /api/config: the response of each

aggVars == <<pc, browser, context, closeCalls, loadCalls, saveCalls, cookieOps, result>>
envVars == <<cfg, web>>
adapterVars == <<apc, aurl, acards, ai, ajobs, apage, firstSettled>>
enrichVars == <<etargets, eindex, eactive, ecompleted, eresolved, fetch, fstarted, dwrites, epages, fhappened>>
fnVars == <<fnIn, fnOut>>
scraperVars == <<aggVars, envVars, adapterVars, enrichVars, fnVars>>
appVars == <<rpc, acfg, bjobs, analyzed, batch, mailIn, mailCalls, mret, apiCfg, apiBody>>
vars == <<scraperVars, appVars>>

\* A value not there yet (a promise not settled, an object not built).
Nothing == [nothing |-> TRUE]

\* No analyzer, mailer, runner or server is running.
AppIdle ==
    /\ rpc = "off" /\ acfg = Nothing
    /\ bjobs = <<>> /\ analyzed = <<>> /\ batch = Nothing
    /\ mailIn = Nothing /\ mailCalls = 0 /\ mret = Nothing
    /\ apiCfg = <<>> /\ apiBody = <<>>

-----------------------------------------------------------------------------
(* Text *)

\* null and undefined where a string is expected: no string holds the code -1.
Null == <<-1>>

\* "N/A"
NA == <<78, 47, 65>>

\* "#"
Hash == <<35>>

\* "Description not available"
DescriptionNotAvailable == <<68, 101, 115, 99, 114, 105, 112, 116, 105, 111, 110, 32, 110, 111, 116, 32, 97, 118, 97, 105, 108, 97, 98, 108, 101>>

\* "http"
Http == <<104, 116, 116, 112>>

Min(x, y) == IF x <= y THEN x ELSE y

\* String.prototype.toLowerCase on one character: A-Z (65..90) map to a-z.
LowerChar(c) == IF c >= 65 /\ c <= 90 THEN c + 32 ELSE c

toLowerCase(s) == [k \in 1..Len(s) |-> LowerChar(s[k])]

\* White space of String.prototype.trim and of the regex class \s:
\* tab, line feed, vertical tab, form feed, carriage return, space, nbsp.
IsSpace(c) == c \in {9, 10, 11, 12, 13, 32, 160}

RECURSIVE trimStart(_)
trimStart(s) == IF s # <<>> /\ IsSpace(Head(s)) THEN trimStart(Tail(s)) ELSE s

RECURSIVE trimEnd(_)
trimEnd(s) == IF s # <<>> /\ IsSpace(s[Len(s)]) THEN trimEnd(SubSeq(s, 1, Len(s) - 1)) ELSE s

trim(s) == trimEnd(trimStart(s))

startsWith(s, p) == Len(s) >= Len(p) /\ SubSeq(s, 1, Len(p)) = p

\* String.prototype.slice(0, n)
slice0(s, n) == SubSeq(s, 1, Min(n, Len(s)))

-----------------------------------------------------------------------------
(* Deduplication of scrapeAllSites *)

\* The callback of findIndex: j matches job on lower-cased title and company.
SameKey(j, job) ==
    /\ toLowerCase(j.title) = toLowerCase(job.title)
    /\ toLowerCase(j.company) = toLowerCase(job.company)

\* Array.prototype.findIndex (1-based here; only used where a match exists).
findIndex(self, job) == CHOOSE k \in 1..Len(self) : SameKey(self[k], job) /\ \A m \in 1..(k - 1) : ~SameKey(self[m], job)

\* The callback of filter in scrapeAllSites.
KeepsIndex_KeepLast(self, index) == \A m \in (index + 1)..Len(self) : ~SameKey(self[m], self[index])

KeepsIndex_Inverted(self, index) == index # findIndex(self, self[index])

KeepsIndex(self, index) == index = findIndex(self, self[index])

RECURSIVE FilterFrom(_, _)
FilterFrom(self, index) ==
    IF index > Len(self) THEN <<>>
    ELSE (IF KeepsIndex(self, index) THEN <<self[index]>> ELSE <<>>) \o FilterFrom(self, index + 1)

\* const uniqueJobs = allJobs.filter(...)
uniqueJobs(allJobs) == FilterFrom(allJobs, 1)

-----------------------------------------------------------------------------
(* Sites and configuration *)

\* The site argument of enrichJobsWithDescriptions, in the order of the
\* array passed to Promise.allSettled.
Sites == {"linkedin", "indeed", "naukri"}

SiteOrder == <<"linkedin", "indeed", "naukri">>

\* The source field pushed by each adapter.
SourceTag(a) == CASE a = "linkedin" -> "LinkedIn" [] a = "indeed" -> "Indeed" [] a = "naukri" -> "Naukri"

\* The prefix put before a link that does not start with "http":
\* https://linkedin.com, https://in.indeed.com, https://www.naukri.com
BaseUrl(a) ==
    CASE a = "linkedin" -> <<104, 116, 116, 112, 115, 58, 47, 47, 108, 105, 110, 107, 101, 100, 105, 110, 46, 99, 111, 109>>
      [] a = "indeed" -> <<104, 116, 116, 112, 115, 58, 47, 47, 105, 110, 46, 105, 110, 100, 101, 101, 100, 46, 99, 111, 109>>
      [] a = "naukri" -> <<104, 116, 116, 112, 115, 58, 47, 47, 119, 119, 119, 46, 110, 97, 117, 107, 114, 105, 46, 99, 111, 109>>

\* (config.scraping && config.scraping.max_detail_fetch) || 20
DefaultDetailFetch == 20

\* (config.scraping && config.scraping.detail_concurrency) || 3
DefaultConcurrency == 3

\* x || d for a number x: 0 is falsy.
OrDefault(x, d) == IF x = 0 THEN d ELSE x

limitOf(c) == OrDefault(c.max_detail_fetch, DefaultDetailFetch)

concurrencyOf(c) == OrDefault(c.detail_concurrency, DefaultConcurrency)

-----------------------------------------------------------------------------
(* cleanText *)

ReplaceChar(s, from, to) == [k \in 1..Len(s) |-> IF s[k] = from THEN to ELSE s[k]]

\* The characters of s at the indices k.. whose mask is TRUE.
RECURSIVE KeepIndices(_, _, _)
KeepIndices(s, mask, k) ==
    IF k > Len(s) THEN <<>>
    ELSE (IF mask[k] THEN <<s[k]>> ELSE <<>>) \o KeepIndices(s, mask, k + 1)

\* .replace(/\n+/g, '\n')
CollapseNewlines(s) ==
    KeepIndices(s, [k \in 1..Len(s) |-> ~(s[k] = 10 /\ k > 1 /\ s[k - 1] = 10)], 1)

\* .replace(/\s{2,}/g, ' ')
CollapseSpaces(s) ==
    LET After(k) == k > 1 /\ IsSpace(s[k - 1])
        Before(k) == k < Len(s) /\ IsSpace(s[k + 1])
        InRun(k) == IsSpace(s[k]) /\ (After(k) \/ Before(k))
        t == [k \in 1..Len(s) |-> IF InRun(k) THEN 32 ELSE s[k]]
    IN KeepIndices(t, [k \in 1..Len(s) |-> ~(InRun(k) /\ After(k))], 1)

cleanText(input) ==
    IF input = Null \/ input = <<>> THEN <<>>
    ELSE trim(CollapseSpaces(ReplaceChar(ReplaceChar(CollapseNewlines(ReplaceChar(input, 13, 32)), 9, 32), 160, 32)))

\* .slice(0, 4000)
DescriptionMaxLen == 4000

-----------------------------------------------------------------------------
(* The pages behind the links (environment) *)

\* innerText of the description element of the page at link: "JD", a tab,
\* the link, two line feeds and a space.
SelectorText(link) == <<74, 68, 9>> \o link \o <<10, 10, 32>>

\* document.body.innerText of the page at link: a space, the link, CR LF.
BodyText(link) == <<32>> \o link \o <<13, 10>>

\* A page with only white space: a space, a tab, a line feed.
BlankText == <<32, 9, 10>>

\* What one description page does when it is scraped.
\*   nav: "newPageFails", "gotoFails" or "ok"
\*   sel: what the selector branch leaves in text: "text", "blank" or
\*        "none" (no selector match, or isVisible/innerText threw)
\*   body: the fallback page.evaluate: "text", "blank" or "throws"
\*   closeOk: whether page.close() succeeds
ExtractOutcomes == [sel : {"text", "blank", "none"}, body : {"text", "blank", "throws"}, closeOk : BOOLEAN]

NavOutcomes == {"newPageFails", "gotoFails", "ok"}

\* What happened, for the record: the page was not reached; it gave no
\* text (neither the selector nor the fallback); its close failed; or the
\* text came from the selector or from the fallback.
ExtractionKind(o) ==
    IF o.sel # "text" /\ o.body # "text" THEN "noText"
    ELSE IF ~o.closeOk THEN "closeFailed"
    ELSE IF o.sel = "text" THEN "selText" ELSE "bodyText"

\* text after the selector branch (lines 466-474)
TextAfterSelector(link, o) ==
    CASE o.sel = "text" -> SelectorText(link)
      [] o.sel = "blank" -> BlankText
      [] o.sel = "none" -> <<>>

\* text after the fallback (lines 476-482)
TextAfterFallback(link, o) ==
    LET text == TextAfterSelector(link, o)
    IN IF text = <<>> \/ trim(text) = <<>>
       THEN (CASE o.body = "text" -> BodyText(link)
               [] o.body = "blank" -> BlankText
               [] o.body = "throws" -> text)
       ELSE text

\* x || 'Description not available' for a string x
OrSentinel(x) == IF x = <<>> THEN DescriptionNotAvailable ELSE x

\* The value fetchJobDescription resolves with once the page was reached.
ExtractResult_Raises(link, o) ==
    IF o.closeOk /\ TextAfterFallback(link, o) # <<>>
    THEN OrSentinel(slice0(cleanText(TextAfterFallback(link, o)), DescriptionMaxLen))
    ELSE Null

ExtractResult(link, o) ==
    IF o.closeOk
    THEN OrSentinel(slice0(cleanText(TextAfterFallback(link, o)), DescriptionMaxLen))
    ELSE DescriptionNotAvailable

\* The value fetchJobDescription resolves with when newPage or goto throws.
NavFailureResult == DescriptionNotAvailable

-----------------------------------------------------------------------------
(* enrichJobsWithDescriptions and fetchJobDescription *)

JobRecord(title, company, location, link, source, scraped_at, description) ==
    [title |-> title, company |-> company, location |-> location, link |-> link,
     source |-> source, scraped_at |-> scraped_at, description |-> description]

\* const targets = jobs.slice(0, Math.min(limit, jobs.length)): its length.
targetsLength(c, jobs) == Min(limitOf(c), Len(jobs))

\* The guard of the while loop of next().
WhileGuard_Uncapped(active, index, concurrency, targetsLen) == index < targetsLen

WhileGuard_OffByOne(active, index, concurrency, targetsLen) == active <= concurrency /\ index < targetsLen

WhileGuard(active, index, concurrency, targetsLen) == active < concurrency /\ index < targetsLen

RECURSIVE nextLoop_ForgetsActive(_, _, _, _)
nextLoop_ForgetsActive(active, index, concurrency, targetsLen) ==
    IF WhileGuard(active, index, concurrency, targetsLen)
    THEN nextLoop_ForgetsActive(active, index + 1, concurrency, targetsLen)
    ELSE [active |-> active, index |-> index]

\* The while loop of next(): active and index when it exits.
RECURSIVE nextLoop(_, _, _, _)
nextLoop(active, index, concurrency, targetsLen) ==
    IF WhileGuard(active, index, concurrency, targetsLen)
    THEN nextLoop(active + 1, index + 1, concurrency, targetsLen)
    ELSE [active |-> active, index |-> index]

\* next(): every targets[index++] taken by the loop has fetchJobDescription
\* called on it (positions index+1..r.index, counting from 1).
next_RefetchesCurrent(active, index, concurrency, targetsLen, fetchA, startedA) ==
    LET r == nextLoop(active, index, concurrency, targetsLen)
        taken(k) == k >= index /\ k <= r.index /\ r.index > index
    IN [active |-> r.active, index |-> r.index,
        fetch |-> [k \in DOMAIN fetchA |-> IF taken(k) THEN "nav" ELSE fetchA[k]],
        fstarted |-> [k \in DOMAIN startedA |-> IF taken(k) THEN startedA[k] + 1 ELSE startedA[k]]]

next(active, index, concurrency, targetsLen, fetchA, startedA) ==
    LET r == nextLoop(active, index, concurrency, targetsLen)
        taken(k) == k > index /\ k <= r.index
    IN [active |-> r.active, index |-> r.index,
        fetch |-> [k \in DOMAIN fetchA |-> IF taken(k) THEN "nav" ELSE fetchA[k]],
        fstarted |-> [k \in DOMAIN startedA |-> IF taken(k) THEN startedA[k] + 1 ELSE startedA[k]]]

\* The call enrichJobsWithDescriptions(jobs, site) up to its first await:
\* the promise is created and next() runs once.
enrichJobsWithDescriptions(a, jobs) ==
    LET targetsLen == targetsLength(cfg, jobs)
        n == next(0, 0, concurrencyOf(cfg), targetsLen,
                  [k \in 1..Len(jobs) |-> "none"], [k \in 1..Len(jobs) |-> 0])
    IN /\ etargets' = [etargets EXCEPT ![a] = targetsLen]
       /\ eindex' = [eindex EXCEPT ![a] = n.index]
       /\ eactive' = [eactive EXCEPT ![a] = n.active]
       /\ ecompleted' = [ecompleted EXCEPT ![a] = 0]
       /\ eresolved' = [eresolved EXCEPT ![a] = 0]
       /\ fetch' = [fetch EXCEPT ![a] = n.fetch]
       /\ fstarted' = [fstarted EXCEPT ![a] = n.fstarted]
       /\ dwrites' = [dwrites EXCEPT ![a] = [k \in 1..Len(jobs) |-> 0]]
       /\ fhappened' = [fhappened EXCEPT ![a] = [k \in 1..Len(jobs) |-> "none"]]

\* .then(desc => { job.description = desc; })
\* .catch(() => { job.description = job.description || ''; })
\* desc = Null stands for a rejected fetchJobDescription promise.
DescriptionWritten_Restamps(jobsA, k, desc) ==
    [jobsA EXCEPT ![k].description = IF desc = Null THEN jobsA[k].description ELSE desc,
                  ![k].scraped_at = 0]

DescriptionWritten_ByArrival(jobsA, k, desc) ==
    [jobsA EXCEPT ![ecompleted["linkedin"] + 1].description = desc]

DescriptionWritten(jobsA, k, desc) ==
    [jobsA EXCEPT ![k].description = IF desc = Null THEN jobsA[k].description ELSE desc]

\* if (completed === targets.length) resolve(); else next();
AllCompleted_AfterFirst(completed, targetsLen) == completed >= 1

AllCompleted(completed, targetsLen) == completed = targetsLen

\* The handlers run when the fetch of targets[k] settles with desc: the
\* description is written, then .finally counts the fetch and either
\* resolves the promise of enrichJobsWithDescriptions (the adapter goes on
\* to page.close() in its finally block) or calls next().
FetchSettled(a, k, desc, what) ==
    LET active == eactive[a] - 1
        completed == ecompleted[a] + 1
        fetchA == [fetch[a] EXCEPT ![k] = IF desc = Null THEN "rejected" ELSE "done"]
        n == IF AllCompleted(completed, etargets[a])
             THEN [active |-> active, index |-> eindex[a], fetch |-> fetchA, fstarted |-> fstarted[a]]
             ELSE next(active, eindex[a], concurrencyOf(cfg), etargets[a], fetchA, fstarted[a])
    IN /\ ajobs' = [ajobs EXCEPT ![a] = DescriptionWritten(ajobs[a], k, desc)]
       /\ dwrites' = [dwrites EXCEPT ![a][k] = @ + 1]
       /\ fhappened' = [fhappened EXCEPT ![a][k] = what]
       /\ eactive' = [eactive EXCEPT ![a] = n.active]
       /\ ecompleted' = [ecompleted EXCEPT ![a] = completed]
       /\ eindex' = [eindex EXCEPT ![a] = n.index]
       /\ fetch' = [fetch EXCEPT ![a] = n.fetch]
       /\ fstarted' = [fstarted EXCEPT ![a] = n.fstarted]
       /\ eresolved' = [eresolved EXCEPT ![a] = IF AllCompleted(completed, etargets[a]) THEN @ + 1 ELSE @]
       /\ apc' = [apc EXCEPT ![a] = IF AllCompleted(completed, etargets[a]) THEN "closePage" ELSE @]
       /\ UNCHANGED <<etargets, aurl, acards, ai, apage, firstSettled>>

\* fetchJobDescription, lines 453-455: newPage, goto, waitForTimeout.
FetchNavigate(a, k) ==
    /\ k \in DOMAIN fetch[a]
    /\ fetch[a][k] = "nav"
    /\ \E o \in web.nav :
        IF o = "ok"
        THEN /\ fetch' = [fetch EXCEPT ![a][k] = "extract"]
             /\ epages' = [epages EXCEPT ![a] = @ + 1]
             /\ UNCHANGED <<adapterVars, etargets, eindex, eactive, ecompleted, eresolved, fstarted, dwrites, fhappened>>
        ELSE /\ epages' = [epages EXCEPT ![a] = IF o = "gotoFails" THEN @ + 1 ELSE @]
             /\ FetchSettled(a, k, NavFailureResult, o)
    /\ UNCHANGED <<aggVars, envVars, fnVars, appVars>>

\* fetchJobDescription, lines 457-485: selector, fallback, page.close, return.
FetchExtract(a, k) ==
    /\ k \in DOMAIN fetch[a]
    /\ fetch[a][k] = "extract"
    /\ \E o \in web.extract :
        /\ epages' = [epages EXCEPT ![a] = IF o.closeOk THEN @ - 1 ELSE @]
        /\ FetchSettled(a, k, ExtractResult(ajobs[a][k].link, o), ExtractionKind(o))
    /\ UNCHANGED <<aggVars, envVars, fnVars, appVars>>

-----------------------------------------------------------------------------
(* The result pages of a run (environment) *)

MaxCards == 1

\* "Eng", "eng", "ENG", "x", "Y", "/j1", "/j2", "http://e/3"
TextEng == <<69, 110, 103>>
TextEngLower == <<101, 110, 103>>
TextEngUpper == <<69, 78, 71>>
TextXLower == <<120>>
TextY == <<89>>
TextJ1 == <<47, 106, 49>>
TextJ2 == <<47, 106, 50>>
TextHttpE3 == <<104, 116, 116, 112, 58, 47, 47, 101, 47, 51>>

RawCard(title, aria, company, location, link) ==
    [title |-> title, aria |-> aria, company |-> company, location |-> location, link |-> link]

\* A card whose title locator found nothing: the catch gives "N/A".
CardNoTitle == RawCard(NA, NA, NA, NA, Hash)

\* The cards a site's results page may show in a run.
RunCards(a) ==
    CASE a = "linkedin" -> {CardNoTitle, RawCard(TextEng, Null, <<88>>, <<68, 101, 108, 104, 105>>, TextJ1)}
      [] a = "indeed" -> {CardNoTitle, RawCard(TextEngLower, Null, TextXLower, <<68, 101, 108, 104, 105>>, TextHttpE3)}
      [] a = "naukri" -> {CardNoTitle, RawCard(TextEngUpper, Null, TextXLower, NA, TextJ1),
                          RawCard(<<68, 101, 118>>, Null, TextY, <<68, 101, 108, 104, 105>>, TextJ2)}

RECURSIVE SeqsUpTo(_, _)
SeqsUpTo(S, n) ==
    IF n = 0 THEN {<<>>}
    ELSE SeqsUpTo(S, n - 1) \cup {Append(q, x) : q \in {r \in SeqsUpTo(S, n - 1) : Len(r) = n - 1}, x \in S}

-----------------------------------------------------------------------------
(* The cards of one results page, field by field (environment) *)

MaxPageCards == 2

\* " \n", " N/A ", " Eng\n", "Gurgaon, India", "Remote", "NEW DELHI",
\* " Work From Home ", "Noida"
TextBlank == <<32, 10>>
TextPaddedNA == <<32, 78, 47, 65, 32>>
TextPaddedEng == <<32, 69, 110, 103, 10>>
TextGurgaon == <<71, 117, 114, 103, 97, 111, 110, 44, 32, 73, 110, 100, 105, 97>>
TextRemoteCap == <<82, 101, 109, 111, 116, 101>>
TextNewDelhiUpper == <<78, 69, 87, 32, 68, 69, 76, 72, 73>>
TextWfhPadded == <<32, 87, 111, 114, 107, 32, 70, 114, 111, 109, 32, 72, 111, 109, 101, 32>>
TextNoida == <<78, 111, 105, 100, 97>>

\* What textContent() of a title element can give: null, '', "N/A" (also
\* the value of the catch), white space, padded text.
SampleTitles == {Null, <<>>, NA, TextBlank, TextPaddedNA, TextEng, TextPaddedEng}

\* What getAttribute('aria-label') can give on Indeed.
SampleArias == {Null, NA, TextEng}

SampleLocations ==
    {Null, <<>>, NA, TextBlank, TextPaddedNA, TextGurgaon, TextRemoteCap, TextNewDelhiUpper, TextWfhPadded}

\* Cards of one page: every title (with no location text), every location
\* with a good title, a card without company text.
CardSamples(a) ==
    UNION {{RawCard(t, r, <<88>>, NA, TextJ1) :
                r \in IF a = "indeed" /\ t \in {Null, <<>>} THEN SampleArias ELSE {Null}} :
           t \in SampleTitles}
    \cup {RawCard(TextEng, Null, TextY, l, TextJ2) : l \in SampleLocations}
    \cup {RawCard(TextEng, Null, Null, NA, Hash)}

\* The card lists that locator(...).all() may resolve with on site a.
PageCardLists(a) ==
    CASE web.cards = "run" -> SeqsUpTo(RunCards(a), MaxCards)
      [] web.cards = "samples" -> SeqsUpTo(CardSamples(a), MaxPageCards)
      [] OTHER -> {}

-----------------------------------------------------------------------------
(* The site adapters: scrapeLinkedIn, scrapeIndeed, scrapeNaukri *)

\* The number of entries of searchUrls.
NumUrls(a) == CASE a = "linkedin" -> 3 [] a = "indeed" -> 5 [] a = "naukri" -> 5

\* A JavaScript string used as a condition: null and '' are falsy.
Truthy(x) == x # Null /\ x # <<>>

\* String.prototype.includes
includes(s, p) == \E k \in 0..(Len(s) - Len(p)) : SubSeq(s, k + 1, k + Len(p)) = p

\* "remote" and "work from home"
TextRemote == <<114, 101, 109, 111, 116, 101>>
TextWorkFromHome == <<119, 111, 114, 107, 32, 102, 114, 111, 109, 32, 104, 111, 109, 101>>

isRelevantLocation_CaseSensitive(location, primary) ==
    IF ~Truthy(location) \/ location = NA THEN TRUE
    ELSE \/ \E k \in DOMAIN primary : includes(location, primary[k])
         \/ includes(location, TextRemote)
         \/ includes(location, TextWorkFromHome)

isRelevantLocation(location, primary) ==
    IF ~Truthy(location) \/ location = NA THEN TRUE
    ELSE LET locationLower == toLowerCase(location)
         IN \/ \E k \in DOMAIN primary : includes(locationLower, toLowerCase(primary[k]))
            \/ includes(locationLower, TextRemote)
            \/ includes(locationLower, TextWorkFromHome)

\* A card as the locators give it, each field after its .catch: a string,
\* Null (textContent or getAttribute resolved with null), or the value of
\* the catch ("N/A", "#").  aria is the aria-label read by scrapeIndeed
\* when the title is falsy.
CardTitle(a, card) == IF a = "indeed" /\ ~Truthy(card.title) THEN card.aria ELSE card.title

\* The condition under which the card is pushed.
CardKept(a, card, c) ==
    LET title == CardTitle(a, card)
    IN IF a = "naukri"
       THEN Truthy(title) /\ title # NA /\ isRelevantLocation(card.location, c.primary)
       ELSE Truthy(title) /\ title # NA /\ trim(title) # <<>>

\* "null": what string concatenation makes of null
TextNull == <<110, 117, 108, 108>>

finalLink(a, link) ==
    IF Truthy(link) /\ startsWith(link, Http) THEN link
    ELSE BaseUrl(a) \o (IF link = Null THEN TextNull ELSE link)

\* company.trim() and location.trim() throw a TypeError on null.
CardThrows(a, card, c) == CardKept(a, card, c) /\ (card.company = Null \/ card.location = Null)

CardJob(a, card, now) ==
    JobRecord(trim(CardTitle(a, card)), trim(card.company), trim(card.location),
              finalLink(a, card.link), SourceTag(a), now, <<>>)

LoopBound_AllCards(cards, c) == Len(cards)

\* Math.min(jobCards.length, config.scraping.max_jobs_per_site)
LoopBound(cards, c) == Min(Len(cards), c.max_jobs_per_site)

\* The adapter reaches `await this.enrichJobsWithDescriptions(jobs, site)`
\* with the jobs array jobs.
AdapterCallsEnrich_LeftToAggregator(a, jobs) ==
    /\ apc' = [apc EXCEPT ![a] = "closePage"]
    /\ UNCHANGED <<etargets, eindex, eactive, ecompleted, eresolved, fetch, fstarted, dwrites, fhappened>>

AdapterCallsEnrich(a, jobs) ==
    /\ enrichJobsWithDescriptions(a, jobs)
    /\ apc' = [apc EXCEPT ![a] = "enrich"]

AdapterClosesPage_ReturnsAtOnce(a) == apc' = [apc EXCEPT ![a] = "fulfilled"]

\* The adapter leaves its try block (return, or the outer catch) and
\* awaits page.close() in the finally block.
AdapterClosesPage(a) == apc' = [apc EXCEPT ![a] = "closePage"]

FirstSettledWith(a) == IF firstSettled = "none" THEN a ELSE firstSettled

\* const page = await this.context.newPage() settles.  It is outside the
\* try block: a failure rejects the adapter's promise.
NewPageDone(a) ==
    /\ apc[a] = "newPage"
    /\ \E ok \in BOOLEAN :
        IF ok
        THEN /\ apc' = [apc EXCEPT ![a] = "nav"]
             /\ aurl' = [aurl EXCEPT ![a] = 1]
             /\ apage' = [apage EXCEPT ![a] = "open"]
             /\ UNCHANGED firstSettled
        ELSE /\ apc' = [apc EXCEPT ![a] = "rejected"]
             /\ firstSettled' = FirstSettledWith(a)
             /\ UNCHANGED <<aurl, apage>>
    /\ UNCHANGED <<aggVars, envVars, enrichVars, fnVars, appVars, acards, ai, ajobs>>

\* One pass of the loop over searchUrls: goto, waitForLoadState, scrolling,
\* popups and the probe for the results container.
UrlOutcomes == {"gotoThrows", "probeFails", "probeSucceeds"}

\* for (const searchUrl of searchUrls): the entry tried after the i-th.
NextUrl_SkipsOne(i) == i + 2

NextUrl(i) == i + 1

\* On `break` aurl goes back to 0; when the loop ends without a break
\* (jobsFound is false: return jobs) it stays at the last entry.
TryUrl(a) ==
    /\ apc[a] = "nav"
    /\ \E o \in UrlOutcomes :
        IF o = "probeSucceeds"
        THEN /\ apc' = [apc EXCEPT ![a] = "list"]
             /\ aurl' = [aurl EXCEPT ![a] = 0]
        ELSE IF aurl[a] < NumUrls(a)
        THEN /\ aurl' = [aurl EXCEPT ![a] = NextUrl(@)]
             /\ UNCHANGED apc
        ELSE /\ AdapterClosesPage(a)
             /\ UNCHANGED aurl
    /\ UNCHANGED <<aggVars, envVars, enrichVars, fnVars, appVars, acards, ai, ajobs, apage, firstSettled>>

\* const jobCards = await page.locator(...).all() settles; the loop starts
\* or, with no card within the bound, the enricher is called at once.
ListCards(a) ==
    /\ apc[a] = "list"
    /\ \/ /\ AdapterClosesPage(a)
          /\ UNCHANGED <<acards, enrichVars>>
       \/ \E cards \in PageCardLists(a) :
            /\ acards' = [acards EXCEPT ![a] = cards]
            /\ IF LoopBound(cards, cfg) > 0
               THEN /\ apc' = [apc EXCEPT ![a] = "cards"]
                    /\ UNCHANGED enrichVars
               ELSE /\ AdapterCallsEnrich(a, ajobs[a])
                    /\ UNCHANGED epages
    /\ UNCHANGED <<aggVars, envVars, fnVars, appVars, aurl, ai, ajobs, apage, firstSettled>>

ExtractCard_AbortsOnThrow(a) ==
    /\ apc[a] = "cards"
    /\ LET card == acards[a][ai[a] + 1]
       IN IF CardThrows(a, card, cfg)
          THEN /\ AdapterClosesPage(a)
               /\ UNCHANGED <<ai, ajobs, enrichVars>>
          ELSE /\ ajobs' = [ajobs EXCEPT ![a] =
                              IF CardKept(a, card, cfg) THEN Append(@, CardJob(a, card, ai[a])) ELSE @]
               /\ apc' = [apc EXCEPT ![a] = "pace"]
               /\ UNCHANGED <<ai, enrichVars>>
    /\ UNCHANGED <<aggVars, envVars, fnVars, appVars, aurl, acards, apage, firstSettled>>

\* The body of the card loop for jobCards[i] up to its next await: the
\* fields are read and the card is pushed or not, then waitForTimeout is
\* awaited; a TypeError goes to the catch of the loop body, which skips the
\* wait and goes on with the next card.
ExtractCard(a) ==
    /\ apc[a] = "cards"
    /\ LET card == acards[a][ai[a] + 1]
       IN IF CardThrows(a, card, cfg)
          THEN /\ ai' = [ai EXCEPT ![a] = @ + 1]
               /\ UNCHANGED ajobs
               /\ IF ai[a] + 1 < LoopBound(acards[a], cfg)
                  THEN UNCHANGED <<apc, enrichVars>>
                  ELSE AdapterCallsEnrich(a, ajobs[a]) /\ UNCHANGED epages
          ELSE /\ ajobs' = [ajobs EXCEPT ![a] =
                              IF CardKept(a, card, cfg) THEN Append(@, CardJob(a, card, ai[a])) ELSE @]
               /\ apc' = [apc EXCEPT ![a] = "pace"]
               /\ UNCHANGED <<ai, enrichVars>>
    /\ UNCHANGED <<aggVars, envVars, fnVars, appVars, aurl, acards, apage, firstSettled>>

\* await page.waitForTimeout(delay_between_requests) settles (a rejection
\* is caught by the loop body); i++, then the next card or the enricher.
PaceDone(a) ==
    /\ apc[a] = "pace"
    /\ ai' = [ai EXCEPT ![a] = @ + 1]
    /\ IF ai[a] + 1 < LoopBound(acards[a], cfg)
       THEN /\ apc' = [apc EXCEPT ![a] = "cards"]
            /\ UNCHANGED enrichVars
       ELSE /\ AdapterCallsEnrich(a, ajobs[a])
            /\ UNCHANGED epages
    /\ UNCHANGED <<aggVars, envVars, fnVars, appVars, aurl, acards, ajobs, apage, firstSettled>>

\* await page.close() in the finally block settles: the adapter returns
\* jobs, or its promise rejects with the error of close.
ClosePageDone(a) ==
    /\ apc[a] = "closePage"
    /\ \E ok \in BOOLEAN :
        /\ apc' = [apc EXCEPT ![a] = IF ok THEN "fulfilled" ELSE "rejected"]
        /\ apage' = [apage EXCEPT ![a] = IF ok THEN "closed" ELSE @]
    /\ firstSettled' = FirstSettledWith(a)
    /\ UNCHANGED <<aggVars, envVars, enrichVars, fnVars, appVars, aurl, acards, ai, ajobs>>

-----------------------------------------------------------------------------
(* The aggregator: initialize, scrapeAllSites, cleanup *)

Settled(a) == apc[a] \in {"fulfilled", "rejected"}

\* await Promise.allSettled([...]) resumes once every adapter has settled.
AwaitReady_Any == \E a \in Sites : Settled(a)

AwaitReady_OnFirstRejection == (\A a \in Sites : Settled(a)) \/ (\E a \in Sites : apc[a] = "rejected")

AwaitReady == \A a \in Sites : Settled(a)

\* Promise.allSettled never rejects.
AwaitThrows_OnRejection == \E a \in Sites : apc[a] = "rejected"

AwaitThrows == FALSE

\* status === 'fulfilled' ? value : []
ValueOf_AnyStatus(a) == ajobs[a]

ValueOf(a) == IF apc[a] = "fulfilled" THEN ajobs[a] ELSE <<>>

\* The order of the three results in allJobs.
ConcatOrder_ByArrival == <<firstSettled>> \o SelectSeq(SiteOrder, LAMBDA a : a # firstSettled)

ConcatOrder == SiteOrder

RECURSIVE ConcatValues(_, _)
ConcatValues(order, k) ==
    IF k > Len(order) THEN <<>> ELSE ValueOf(order[k]) \o ConcatValues(order, k + 1)

allJobs == ConcatValues(ConcatOrder, 1)

\* this.browser = await chromium.launch(...) settles; a failure goes to
\* the catch of initialize, which rethrows: scrapeAllSites rejects.
LaunchDone ==
    /\ pc = "launch"
    /\ \E ok \in BOOLEAN :
        /\ browser' = IF ok THEN "open" ELSE browser
        /\ pc' = IF ok THEN "newContext" ELSE "raised"
    /\ UNCHANGED <<context, closeCalls, loadCalls, saveCalls, cookieOps, result>>
    /\ UNCHANGED <<envVars, adapterVars, enrichVars, fnVars, appVars>>

\* this.context = await this.browser.newContext(...) settles; on success
\* loadCookies() is called.  initialize is called outside the try block of
\* scrapeAllSites, so a failure rejects scrapeAllSites without cleanup.
NewContextDone_SkipsLoad ==
    /\ pc = "newContext"
    /\ \E ok \in BOOLEAN :
        /\ context' = IF ok THEN "open" ELSE context
        /\ pc' = IF ok THEN "loadCookies" ELSE "raised"
    /\ UNCHANGED <<browser, closeCalls, loadCalls, saveCalls, cookieOps, result>>
    /\ UNCHANGED <<envVars, adapterVars, enrichVars, fnVars, appVars>>

NewContextDone ==
    /\ pc = "newContext"
    /\ \E ok \in BOOLEAN :
        /\ context' = IF ok THEN "open" ELSE context
        /\ loadCalls' = IF ok THEN loadCalls + 1 ELSE loadCalls
        /\ pc' = IF ok THEN "loadCookies" ELSE "raised"
    /\ UNCHANGED <<browser, closeCalls, saveCalls, cookieOps, result>>
    /\ UNCHANGED <<envVars, adapterVars, enrichVars, fnVars, appVars>>

\* if (!config.sites.<site>.enabled) return [];  Where a call of the adapter
\* stands at its first await: a disabled adapter has returned [] already,
\* an enabled one awaits context.newPage().
FirstAwait_IgnoresEnabled(a, c) == "newPage"

FirstAwait(a, c) == IF c.enabled[a] THEN "newPage" ELSE "fulfilled"

\* Where scrapeAllSites stands once loadCookies() has settled: loadCookies
\* catches its own errors, so initialize returns whether the cookies were
\* loaded (ok) or not.
AfterLoadCookies_Propagates(ok) == IF ok THEN "waiting" ELSE "raised"

AfterLoadCookies(ok) == "waiting"

\* await this.loadCookies() settles (it catches its own errors, so both
\* outcomes continue alike); initialize returns and scrapeAllSites calls
\* the three adapters in turn, each running up to its first await: a
\* disabled adapter returns [] at once, an enabled one awaits newPage().
LoadCookiesDone ==
    /\ pc = "loadCookies"
    /\ \E ok \in BOOLEAN :
        /\ cookieOps' = [cookieOps EXCEPT !.load = IF ok THEN "ok" ELSE "failed"]
        /\ pc' = AfterLoadCookies(ok)
        /\ IF AfterLoadCookies(ok) = "waiting"
           THEN /\ apc' = [a \in Sites |-> FirstAwait(a, cfg)]
                /\ firstSettled' = LET off == SelectSeq(SiteOrder, LAMBDA a : ~cfg.enabled[a])
                                   IN IF off = <<>> THEN "none" ELSE off[1]
           ELSE UNCHANGED <<apc, firstSettled>>
    /\ UNCHANGED <<browser, context, closeCalls, loadCalls, saveCalls, result>>
    /\ UNCHANGED <<envVars, enrichVars, fnVars, appVars, aurl, acards, ai, ajobs, apage>>

\* The await of Promise.allSettled resumes: allJobs and uniqueJobs are
\* computed and saveCookies() is called.  (Were the await to throw, the
\* catch block rethrows and the finally block calls cleanup.)
AdaptersSettled ==
    /\ pc = "waiting"
    /\ AwaitReady
    /\ IF AwaitThrows
       THEN /\ pc' = "cleanupThrow"
            /\ closeCalls' = closeCalls + 1
            /\ UNCHANGED <<result, saveCalls>>
       ELSE /\ result' = uniqueJobs(allJobs)
            /\ saveCalls' = saveCalls + 1
            /\ pc' = "saveCookies"
            /\ UNCHANGED closeCalls
    /\ UNCHANGED <<browser, context, loadCalls, cookieOps>>
    /\ UNCHANGED <<envVars, adapterVars, enrichVars, fnVars, appVars>>

\* await this.saveCookies() settles (it catches its own errors); `return
\* uniqueJobs` runs the finally block: cleanup() calls browser.close().
SaveCookiesDone ==
    /\ pc = "saveCookies"
    /\ \E ok \in BOOLEAN :
        /\ cookieOps' = [cookieOps EXCEPT !.save = IF ok THEN "ok" ELSE "failed"]
        /\ pc' = "cleanup"
        /\ closeCalls' = IF browser # "null" THEN closeCalls + 1 ELSE closeCalls
    /\ UNCHANGED <<browser, context, loadCalls, saveCalls, result>>
    /\ UNCHANGED <<envVars, adapterVars, enrichVars, fnVars, appVars>>

\* await this.browser.close() settles (cleanup catches its error);
\* scrapeAllSites resolves with uniqueJobs.
CleanupDone ==
    /\ pc \in {"cleanup", "cleanupThrow"}
    /\ \E ok \in BOOLEAN :
        /\ browser' = IF ok THEN "closed" ELSE browser
        /\ pc' = IF pc = "cleanup" THEN "done" ELSE "raised"
    /\ UNCHANGED <<context, closeCalls, loadCalls, saveCalls, cookieOps, result>>
    /\ UNCHANGED <<envVars, adapterVars, enrichVars, fnVars, appVars>>

-----------------------------------------------------------------------------
(* A whole run of scrapeAllSites *)

\* In a run a description page is reached or not; a page reached gives
\* its text from the selector, or is blank, or fails to close.
RunWeb ==
    [cards |-> "run",
     nav |-> NavOutcomes,
     extract |-> {[sel |-> "text", body |-> "text", closeOk |-> TRUE],
                  [sel |-> "blank", body |-> "blank", closeOk |-> TRUE],
                  [sel |-> "text", body |-> "text", closeOk |-> FALSE]}]

\* Every choice of enabled sites; locations.primary = ["Delhi"].
RunConfigs ==
    {[enabled |-> [a \in Sites |-> a \notin off], max_jobs_per_site |-> MaxCards,
      max_detail_fetch |-> DefaultDetailFetch, detail_concurrency |-> DefaultConcurrency,
      primary |-> <<<<68, 101, 108, 104, 105>>>>] : off \in SUBSET Sites}

Init ==
    /\ pc = "launch" /\ browser = "null" /\ context = "null"
    /\ closeCalls = 0 /\ loadCalls = 0 /\ saveCalls = 0 /\ result = <<>>
    /\ cookieOps = [load |-> "none", save |-> "none"]
    /\ cfg \in RunConfigs
    /\ web = RunWeb
    /\ apc = [a \in Sites |-> "idle"]
    /\ aurl = [a \in Sites |-> 0] /\ acards = [a \in Sites |-> <<>>] /\ ai = [a \in Sites |-> 0]
    /\ ajobs = [a \in Sites |-> <<>>]
    /\ apage = [a \in Sites |-> "none"]
    /\ firstSettled = "none"
    /\ etargets = [a \in Sites |-> 0] /\ eindex = [a \in Sites |-> 0]
    /\ eactive = [a \in Sites |-> 0] /\ ecompleted = [a \in Sites |-> 0]
    /\ eresolved = [a \in Sites |-> 0] /\ epages = [a \in Sites |-> 0]
    /\ fetch = [a \in Sites |-> <<>>] /\ fstarted = [a \in Sites |-> <<>>]
    /\ dwrites = [a \in Sites |-> <<>>] /\ fhappened = [a \in Sites |-> <<>>]
    /\ fnIn = <<>> /\ fnOut = <<>>
    /\ AppIdle

Next ==
    \/ LaunchDone
    \/ NewContextDone
    \/ LoadCookiesDone
    \/ \E a \in Sites : NewPageDone(a)
    \/ \E a \in Sites : TryUrl(a)
    \/ \E a \in Sites : ListCards(a)
    \/ \E a \in Sites : ExtractCard(a)
    \/ \E a \in Sites : PaceDone(a)
    \/ \E a \in Sites, k \in 1..(MaxCards + 1) : FetchNavigate(a, k)
    \/ \E a \in Sites, k \in 1..(MaxCards + 1) : FetchExtract(a, k)
    \/ \E a \in Sites : ClosePageDone(a)
    \/ AdaptersSettled
    \/ SaveCookiesDone
    \/ CleanupDone

Spec == Init /\ [][Next]_vars

\* Every operation awaited by the code settles: a pending step is taken.
FairSpec == Spec /\ WF_vars(Next)

-----------------------------------------------------------------------------
(* One call of enrichJobsWithDescriptions on its own *)

MaxJobs == 3
MaxFetchCfg == 3
MaxConcCfg == 2

\* "Dev", "X", "Delhi", "old"
TextDev == <<68, 101, 118>>
TextX == <<88>>
TextDelhi == <<68, 101, 108, 104, 105>>
TextOld == <<111, 108, 100>>

\* The k-th record of an input list: its link is <base>/j<k>.
EnrichJob(a, k, description) ==
    JobRecord(TextDev, TextX, TextDelhi, BaseUrl(a) \o <<47, 106, 48 + k>>, SourceTag(a), k, description)

\* Lists of 0..MaxJobs records, fresh from an adapter (description '') or
\* carrying a description already.
EnrichInputs(a) ==
    {[k \in 1..n |-> EnrichJob(a, k, d)] : n \in 0..MaxJobs, d \in {<<>>, TextOld}}

EnrichConfigs ==
    {[enabled |-> [a \in Sites |-> TRUE], max_jobs_per_site |-> MaxJobs,
      max_detail_fetch |-> m, detail_concurrency |-> c, primary |-> <<TextDelhi>>] :
        m \in 0..MaxFetchCfg, c \in 0..MaxConcCfg}

EnrichSite == "linkedin"

NoJobs == [a \in Sites |-> <<>>]
Zeros == [a \in Sites |-> 0]

InitEnrich ==
    /\ pc = "waiting" /\ browser = "open" /\ context = "open"
    /\ closeCalls = 0 /\ loadCalls = 1 /\ saveCalls = 0 /\ result = <<>>
    /\ cookieOps = [load |-> "ok", save |-> "none"]
    /\ cfg \in EnrichConfigs
    /\ web = [cards |-> "none", nav |-> NavOutcomes, extract |-> ExtractOutcomes]
    /\ apc = [a \in Sites |-> IF a = EnrichSite THEN "callEnrich" ELSE "newPage"]
    /\ aurl = Zeros /\ acards = NoJobs /\ ai = Zeros
    /\ ajobs \in {[NoJobs EXCEPT ![EnrichSite] = jobs] : jobs \in EnrichInputs(EnrichSite)}
    /\ apage = [a \in Sites |-> IF a = EnrichSite THEN "open" ELSE "none"]
    /\ firstSettled = "none"
    /\ etargets = Zeros /\ eindex = Zeros /\ eactive = Zeros /\ ecompleted = Zeros
    /\ eresolved = Zeros /\ epages = Zeros
    /\ fetch = NoJobs /\ fstarted = NoJobs /\ dwrites = NoJobs /\ fhappened = NoJobs
    /\ fnIn = ajobs[EnrichSite] /\ fnOut = <<>>
    /\ AppIdle

\* await this.enrichJobsWithDescriptions(jobs, site)
EnrichCall(a) ==
    /\ apc[a] = "callEnrich"
    /\ enrichJobsWithDescriptions(a, ajobs[a])
    /\ apc' = [apc EXCEPT ![a] = "enrich"]
    /\ UNCHANGED <<aggVars, envVars, fnVars, appVars, aurl, acards, ai, ajobs, apage, firstSettled, epages>>

NextEnrich ==
    \/ EnrichCall(EnrichSite)
    \/ \E k \in 1..(MaxJobs + 1) : FetchNavigate(EnrichSite, k)
    \/ \E k \in 1..(MaxJobs + 1) : FetchExtract(EnrichSite, k)

SpecEnrich == InitEnrich /\ [][NextEnrich]_vars

-----------------------------------------------------------------------------
(* Properties of one enrichment call (SpecEnrich) *)

\* The fetchJobDescription calls of site a started and not yet settled.
InFlight(a) == Cardinality({k \in DOMAIN fetch[a] : fetch[a][k] \in {"nav", "extract"}})

\* C8: during one call of enrichJobsWithDescriptions with concurrency cap
\* c, never more than c description fetches are in flight, whatever the
\* number of records and the order in which the fetches complete.
C8_ConcurrencyCap == InFlight(EnrichSite) <= concurrencyOf(cfg)

\* The cap is reached while records still wait and others have completed.
C8_Witness ==
    /\ InFlight(EnrichSite) = concurrencyOf(cfg)
    /\ eindex[EnrichSite] < etargets[EnrichSite]
    /\ ecompleted[EnrichSite] > 0

\* C9: with max_detail_fetch = m >= 0 and n records, a description fetch is
\* started for exactly the first min(m, n) records, and every record after
\* that prefix keeps the description it had before the call.
C9_EnrichmentCap ==
    LET a == EnrichSite
        n == Len(ajobs[a])
        p == Min(cfg.max_detail_fetch, n)
    IN apc[a] # "callEnrich" =>
         /\ \A k \in 1..n : fstarted[a][k] > 0 => k <= p
         /\ \A k \in (p + 1)..n : ajobs[a][k].description = fnIn[k].description
         /\ eresolved[a] > 0 => \A k \in 1..p : fstarted[a][k] = 1

\* The text a description page yields for its own link, written out:
\* "JD <link>" from the selector, the link itself from the fallback.
OwnSelectorDescription(link) == <<74, 68, 32>> \o link

OwnBodyDescription(link) == link

\* C10: a failed navigation or text extraction for one capped record makes
\* that record's description the sentinel, fetchJobDescription never
\* raises, and every other capped record is still fetched and receives its
\* own result.
C10_FetchFailureIsolated ==
    LET a == EnrichSite
    IN /\ \A k \in DOMAIN fetch[a] :
            /\ fetch[a][k] # "rejected"
            /\ fhappened[a][k] \in {"newPageFails", "gotoFails", "noText"}
                 => ajobs[a][k].description = DescriptionNotAvailable
            /\ fhappened[a][k] = "selText"
                 => ajobs[a][k].description = OwnSelectorDescription(ajobs[a][k].link)
            /\ fhappened[a][k] = "bodyText"
                 => ajobs[a][k].description = OwnBodyDescription(ajobs[a][k].link)
       /\ (apc[a] = "enrich" /\ ecompleted[a] < etargets[a]) => InFlight(a) > 0
       /\ eresolved[a] > 0 => \A k \in 1..etargets[a] : fetch[a][k] = "done" /\ fstarted[a][k] = 1

\* One record's navigation failed, one gave no text, a third has its own text.
C10_Witness ==
    LET a == EnrichSite
    IN /\ eresolved[a] = 1
       /\ \E k1, k2, k3 \in DOMAIN fetch[a] :
            /\ fhappened[a][k1] = "gotoFails"
            /\ fhappened[a][k2] = "noText"
            /\ fhappened[a][k3] = "selText"
            /\ ajobs[a][k1].description = DescriptionNotAvailable
            /\ ajobs[a][k2].description = DescriptionNotAvailable
            /\ ajobs[a][k3].description = OwnSelectorDescription(ajobs[a][k3].link)

-----------------------------------------------------------------------------
(* The deduplication on its own (SpecDedup) *)

MaxDedupLen == 4

\* Records that agree on the key up to case, or on the title only.
DedupRecords ==
    {JobRecord(TextEng, TextX, TextDelhi, TextJ1, "LinkedIn", 0, <<>>),
     JobRecord(TextEngLower, TextXLower, TextDelhi, TextJ1, "Indeed", 0, <<>>),
     JobRecord(TextEngUpper, TextY, TextDelhi, TextJ2, "Indeed", 0, <<>>),
     JobRecord(TextDev, TextX, TextDelhi, TextJ2, "Naukri", 0, <<>>)}

InitDedup ==
    /\ pc = "dedup" /\ browser = "open" /\ context = "open"
    /\ closeCalls = 0 /\ loadCalls = 1 /\ saveCalls = 0 /\ result = <<>>
    /\ cookieOps = [load |-> "ok", save |-> "none"]
    /\ cfg \in {c \in RunConfigs : \A a \in Sites : c.enabled[a]}
    /\ web = RunWeb
    /\ apc = [a \in Sites |-> "fulfilled"]
    /\ aurl = Zeros /\ acards = NoJobs /\ ai = Zeros /\ ajobs = NoJobs
    /\ apage = [a \in Sites |-> "closed"]
    /\ firstSettled = "linkedin"
    /\ etargets = Zeros /\ eindex = Zeros /\ eactive = Zeros /\ ecompleted = Zeros
    /\ eresolved = Zeros /\ epages = Zeros
    /\ fetch = NoJobs /\ fstarted = NoJobs /\ dwrites = NoJobs /\ fhappened = NoJobs
    /\ fnIn \in SeqsUpTo(DedupRecords, MaxDedupLen)
    /\ fnOut = <<>>
    /\ AppIdle

\* const uniqueJobs = allJobs.filter(...) applied to the list fnIn.
ApplyDedup ==
    /\ pc = "dedup"
    /\ fnOut' = uniqueJobs(fnIn)
    /\ pc' = "deduped"
    /\ UNCHANGED <<browser, context, closeCalls, loadCalls, saveCalls, cookieOps, result, fnIn>>
    /\ UNCHANGED <<envVars, adapterVars, enrichVars, appVars>>

\* The same filter applied to the list it produced.
ReapplyDedup ==
    /\ pc = "deduped"
    /\ fnIn' = fnOut
    /\ fnOut' = uniqueJobs(fnOut)
    /\ pc' = "rededuped"
    /\ UNCHANGED <<browser, context, closeCalls, loadCalls, saveCalls, cookieOps, result>>
    /\ UNCHANGED <<envVars, adapterVars, enrichVars, appVars>>

NextDedup == ApplyDedup \/ ReapplyDedup

SpecDedup == InitDedup /\ [][NextDedup]_vars

\* The case-insensitive (title, company) key of a record.
KeyOf(r) == <<toLowerCase(r.title), toLowerCase(r.company)>>

\* s is t with some elements left out.
RECURSIVE IsSubSeq(_, _)
IsSubSeq(s, t) ==
    IF s = <<>> THEN TRUE
    ELSE IF t = <<>> THEN FALSE
    ELSE IF Head(s) = Head(t) THEN IsSubSeq(Tail(s), Tail(t))
    ELSE IsSubSeq(s, Tail(t))

\* C2: the output of the deduplication is an order-preserving sub-list of
\* the input, holds no two records with case-insensitively equal (title,
\* company), holds every key of the input, and keeps for each key the first
\* record with that key in the input.
C2_DedupKeepsFirst ==
    pc = "deduped" =>
        /\ IsSubSeq(fnOut, fnIn)
        /\ \A i, j \in DOMAIN fnOut : KeyOf(fnOut[i]) = KeyOf(fnOut[j]) => i = j
        /\ \A k \in DOMAIN fnIn : \E i \in DOMAIN fnOut : KeyOf(fnOut[i]) = KeyOf(fnIn[k])
        /\ \A i \in DOMAIN fnOut : \E k \in DOMAIN fnIn :
              /\ fnIn[k] = fnOut[i]
              /\ \A m \in 1..(k - 1) : KeyOf(fnIn[m]) # KeyOf(fnOut[i])

\* A record that differs from an earlier one only in case was dropped, and
\* two records with the same title and different companies were both kept.
C2_Witness ==
    /\ pc = "deduped"
    /\ Len(fnOut) >= 2
    /\ \E i, j \in DOMAIN fnIn :
          i < j /\ fnIn[i] # fnIn[j] /\ KeyOf(fnIn[i]) = KeyOf(fnIn[j])
    /\ \E i, j \in DOMAIN fnOut :
          toLowerCase(fnOut[i].title) = toLowerCase(fnOut[j].title) /\ fnOut[i].company # fnOut[j].company

-----------------------------------------------------------------------------
(* Properties of a whole run (Spec, FairSpec) *)

\* The first record of each key, by recursion on the list.
RECURSIVE FirstOccurrences(_)
FirstOccurrences(s) ==
    IF s = <<>> THEN <<>>
    ELSE <<Head(s)>> \o FirstOccurrences(SelectSeq(Tail(s), LAMBDA j : KeyOf(j) # KeyOf(Head(s))))

\* What an adapter that did not fail hands over.
Survived(a) == IF apc[a] = "rejected" THEN <<>> ELSE ajobs[a]

\* C1: once the session is open, whichever adapters fail, scrapeAllSites
\* raises no error and returns the deduplication of the concatenated
\* outputs of the adapters that did not fail; an adapter that failed
\* contributes no record.
C1_PartialFailureIsolated ==
    /\ context = "open" => pc # "raised"
    /\ pc = "done" =>
          /\ result = FirstOccurrences(Survived("linkedin") \o Survived("indeed") \o Survived("naukri"))
          /\ \A a \in Sites : \A k \in DOMAIN result :
                apc[a] = "rejected" => result[k].source # SourceTag(a)

\* One adapter failed after collecting a record, another delivered one.
C1_Witness ==
    /\ pc = "done"
    /\ \E a, b \in Sites :
          /\ apc[a] = "rejected" /\ ajobs[a] # <<>>
          /\ apc[b] = "fulfilled" /\ ajobs[b] # <<>>
    /\ result # <<>>

\* The enabled sites, in the fixed order, that delivered a record with the key of r.
Holders(r) == SelectSeq(SiteOrder, LAMBDA a : apc[a] = "fulfilled" /\ \E k \in DOMAIN ajobs[a] : KeyOf(ajobs[a][k]) = KeyOf(r))

\* C3: when several adapters produce the same (title, company) key, the
\* surviving record comes from the earliest of them in the order LinkedIn,
\* Indeed, Naukri, whatever the order in which the adapters finish.
C3_EarliestAdapterWins ==
    pc = "done" => \A k \in DOMAIN result :
        /\ Holders(result[k]) # <<>>
        /\ result[k].source = SourceTag(Holders(result[k])[1])

\* A later adapter finished first, and the earlier adapter's record survived.
C3_Witness ==
    /\ pc = "done"
    /\ firstSettled = "naukri"
    /\ \E k \in DOMAIN result :
          /\ Len(Holders(result[k])) = 3
          /\ result[k].source = "LinkedIn"

\* C4: a run in which every adapter ends with no retained record completes
\* and returns the empty list: as long as no adapter holds a record, the run
\* either has ended (returning <<>>, or raising because the session could
\* not be opened) or still has a step to take.
C4_ZeroJobsRunCompletes ==
    (\A a \in Sites : ajobs[a] = <<>>) =>
        /\ pc = "done" => result = <<>>
        /\ pc \notin {"done", "raised"} => ENABLED Next

\* C5: scrapeAllSites raises an error exactly when initialize fails; no
\* failure of an adapter, a description fetch, a cookie call or the browser
\* close raises one.
C5_OnlySessionFailureRaises ==
    /\ pc = "raised" => context = "null" /\ \A a \in Sites : apc[a] = "idle"
    /\ (context = "null" /\ pc \notin {"launch", "newContext"}) => pc = "raised"

\* The run completed although an adapter rejected, a description fetch
\* failed and the browser close failed.
C5_Witness ==
    /\ pc = "done"
    /\ browser = "open"
    /\ \E a \in Sites : apc[a] = "rejected"
    /\ \E a \in Sites : \E k \in DOMAIN fhappened[a] : fhappened[a][k] = "gotoFails"

\* C6: the browser is closed exactly once in a run whose session opened,
\* and only after all three adapters and every description fetch settled.
C6_CloseAfterAllSettled ==
    /\ closeCalls <= 1
    /\ pc = "done" => closeCalls = 1
    /\ (closeCalls > 0 \/ browser = "closed") =>
          \A a \in Sites : Settled(a) /\ InFlight(a) = 0

\* The browser was closed after two adapters had fetched descriptions.
C6_Witness ==
    /\ pc = "done"
    /\ browser = "closed"
    /\ closeCalls = 1
    /\ \E a, b \in Sites : a # b /\ eresolved[a] = 1 /\ eresolved[b] = 1

\* C7: every browser launched in a run has been closed when the run ends,
\* also when context creation fails after the launch.
C7_BrowserReleased ==
    (pc \in {"done", "raised"} /\ browser # "null") => closeCalls > 0

\* C14: the adapter of a disabled site returns the empty list and does
\* nothing else: it never awaits a page, a navigation or a card, opens no
\* page and starts no description fetch.
C14_DisabledSiteShortCircuits ==
    \A a \in Sites : ~cfg.enabled[a] =>
        /\ apc[a] \in {"idle", "fulfilled"}
        /\ pc \in {"waiting", "saveCookies", "cleanup", "done"} => apc[a] = "fulfilled"
        /\ apage[a] = "none" /\ aurl[a] = 0 /\ acards[a] = <<>>
        /\ ajobs[a] = <<>> /\ ValueOf(a) = <<>>
        /\ epages[a] = 0 /\ fstarted[a] = <<>> /\ fetch[a] = <<>>

\* A run with a disabled site returned the records of an enabled one, whose
\* descriptions were fetched.
C14_Witness ==
    /\ pc = "done"
    /\ \E a, b \in Sites :
          /\ ~cfg.enabled[a] /\ apc[a] = "fulfilled"
          /\ cfg.enabled[b] /\ eresolved[b] = 1 /\ epages[b] > 0
    /\ result # <<>>

\* C15: the deduplication applied to a list that is already a result of
\* the deduplication returns that list: the same records in the same order.
C15_DedupIdempotent == pc = "rededuped" => fnOut = fnIn

\* The list deduplicated again holds several records, two of them with the
\* same title and different companies.
C15_Witness ==
    /\ pc = "rededuped"
    /\ Len(fnIn) >= 3
    /\ \E i, j \in DOMAIN fnIn :
          toLowerCase(fnIn[i].title) = toLowerCase(fnIn[j].title) /\ fnIn[i].company # fnIn[j].company

-----------------------------------------------------------------------------
(* One adapter on one results page, then the rest of the run (SpecCards) *)

\* One site enabled; max_jobs_per_site is the longest page or one less;
\* locations.primary = ["Delhi", "Noida"].
CardConfigs ==
    {[enabled |-> [a \in Sites |-> a = s], max_jobs_per_site |-> m,
      max_detail_fetch |-> 1, detail_concurrency |-> DefaultConcurrency, primary |-> p] :
        s \in Sites, m \in (MaxPageCards - 1)..MaxPageCards, p \in {<<TextDelhi, TextNoida>>}}

\* The enabled adapter has found the results container of a search URL and
\* awaits page.locator(...).all(); the disabled ones have returned [].
InitCards ==
    /\ pc = "waiting" /\ browser = "open" /\ context = "open"
    /\ closeCalls = 0 /\ loadCalls = 1 /\ saveCalls = 0 /\ result = <<>>
    /\ cookieOps = [load |-> "ok", save |-> "none"]
    /\ cfg \in CardConfigs
    /\ web = [cards |-> "samples", nav |-> {"ok"},
              extract |-> {[sel |-> "text", body |-> "text", closeOk |-> TRUE]}]
    /\ apc = [a \in Sites |-> IF cfg.enabled[a] THEN "list" ELSE FirstAwait(a, cfg)]
    /\ apage = [a \in Sites |-> IF cfg.enabled[a] THEN "open" ELSE "none"]
    /\ aurl = Zeros /\ acards = NoJobs /\ ai = Zeros /\ ajobs = NoJobs
    /\ firstSettled = SelectSeq(SiteOrder, LAMBDA a : ~cfg.enabled[a])[1]
    /\ etargets = Zeros /\ eindex = Zeros /\ eactive = Zeros /\ ecompleted = Zeros
    /\ eresolved = Zeros /\ epages = Zeros
    /\ fetch = NoJobs /\ fstarted = NoJobs /\ dwrites = NoJobs /\ fhappened = NoJobs
    /\ fnIn = <<>> /\ fnOut = <<>>
    /\ AppIdle

NextCards ==
    \/ \E a \in Sites : ListCards(a)
    \/ \E a \in Sites : ExtractCard(a)
    \/ \E a \in Sites : PaceDone(a)
    \/ \E a \in Sites : FetchNavigate(a, 1)
    \/ \E a \in Sites : FetchExtract(a, 1)
    \/ \E a \in Sites : ClosePageDone(a)
    \/ AdaptersSettled
    \/ SaveCookiesDone
    \/ CleanupDone

SpecCards == InitCards /\ [][NextCards]_vars

-----------------------------------------------------------------------------
(* Properties of the card extraction (SpecCards) *)

\* C11: no record of an adapter, and so none returned by scrapeAllSites,
\* has a title that is empty or "N/A" once white space is trimmed.
C11_TitleNeverPlaceholder ==
    /\ \A a \in Sites : \A k \in DOMAIN ajobs[a] :
          trim(ajobs[a][k].title) # <<>> /\ trim(ajobs[a][k].title) # NA
    /\ \A k \in DOMAIN result :
          trim(result[k].title) # <<>> /\ trim(result[k].title) # NA

\* s holds p as a contiguous part.
Contains(s, p) ==
    \E i \in 1..(Len(s) + 1) : \E n \in 0..(Len(s) + 1 - i) :
        n = Len(p) /\ \A k \in 1..n : s[i + k - 1] = p[k]

\* A location as the claims describe a relevant one: unknown, or holding a
\* configured primary location whatever the case, or "remote", or "work
\* from home".
RelevantAsStated(loc, primary) ==
    \/ loc = Null \/ loc = <<>> \/ loc = NA
    \/ \E k \in DOMAIN primary : Contains(toLowerCase(loc), toLowerCase(primary[k]))
    \/ Contains(toLowerCase(loc), TextRemote)
    \/ Contains(toLowerCase(loc), TextWorkFromHome)

\* C12: every record scrapeAllSites returns, whatever its source, has a
\* relevant location.
C12_EveryRecordLocationRelevant ==
    pc = "done" => \A k \in DOMAIN result : RelevantAsStated(result[k].location, cfg.primary)

\* The cards of site a that the loop has dealt with.
CardsSeen(a) == 1..(IF apc[a] = "pace" THEN ai[a] + 1 ELSE ai[a])

\* C13: isRelevantLocation holds of a location exactly when it is missing,
\* empty or "N/A", or holds a primary location up to case, or "remote" or
\* "work from home"; with primary = ["Delhi", "Noida"] it rejects "Gurgaon,
\* India" and accepts "Remote" and an unknown location; and every record of
\* the Naukri adapter comes from a card whose location it accepts.
C13_LocationPredicate ==
    /\ \A k \in DOMAIN acards["naukri"] :
          isRelevantLocation(acards["naukri"][k].location, cfg.primary)
            <=> RelevantAsStated(acards["naukri"][k].location, cfg.primary)
    /\ ~isRelevantLocation(TextGurgaon, <<TextDelhi, TextNoida>>)
    /\ isRelevantLocation(TextRemoteCap, <<TextDelhi, TextNoida>>)
    /\ isRelevantLocation(NA, <<TextDelhi, TextNoida>>)
    /\ isRelevantLocation(Null, <<TextDelhi, TextNoida>>)
    /\ \A j \in DOMAIN ajobs["naukri"] : \E k \in CardsSeen("naukri") :
          /\ ajobs["naukri"][j].scraped_at = k - 1
          /\ ajobs["naukri"][j].location = trim(acards["naukri"][k].location)
          /\ RelevantAsStated(acards["naukri"][k].location, cfg.primary)

\* Naukri dropped a card for its location ("Gurgaon, India") and kept one
\* whose location matches a primary entry only up to case.
C13_Witness ==
    /\ cfg.primary = <<TextDelhi, TextNoida>>
    /\ apc["naukri"] = "fulfilled" /\ Len(acards["naukri"]) = 2
    /\ acards["naukri"][1].location = TextGurgaon /\ acards["naukri"][1].title = TextEng
    /\ acards["naukri"][2].location = TextNewDelhiUpper
    /\ Len(ajobs["naukri"]) = 1
    /\ ajobs["naukri"][1].location = TextNewDelhiUpper

-----------------------------------------------------------------------------
(* AIJobAnalyzer: analyzeJob, analyzeBatch *)

\* No scrapeAllSites call is in progress: a JobScraper as constructed.
ScraperIdle ==
    /\ pc = "off" /\ browser = "null" /\ context = "null"
    /\ closeCalls = 0 /\ loadCalls = 0 /\ saveCalls = 0 /\ result = <<>>
    /\ cookieOps = [load |-> "none", save |-> "none"]
    /\ cfg \in {c \in RunConfigs : \A a \in Sites : c.enabled[a]}
    /\ web = RunWeb
    /\ apc = [a \in Sites |-> "idle"]
    /\ aurl = Zeros /\ acards = NoJobs /\ ai = Zeros /\ ajobs = NoJobs
    /\ apage = [a \in Sites |-> "none"]
    /\ firstSettled = "none"
    /\ etargets = Zeros /\ eindex = Zeros /\ eactive = Zeros /\ ecompleted = Zeros
    /\ eresolved = Zeros /\ epages = Zeros
    /\ fetch = NoJobs /\ fstarted = NoJobs /\ dwrites = NoJobs /\ fhappened = NoJobs
    /\ fnIn = <<>> /\ fnOut = <<>>

MaxBatch == 3

\* Math.max(1, Math.min(10, ...)), `parseInt(parsed.score) || 1`, the
\* fallback `: 5`, and relevance_score: 0 of the catch block.
ScoreFloor == 1
ScoreCeiling == 10
ScoreIfFalsy == 1
ScoreIfNoMatch == 5
ScoreOnFailure == 0

Max(x, y) == IF x >= y THEN x ELSE y

\* What the scoring backend can answer to one prompt.  kind: "json" (the
\* reply holds a JSON object), "brokenJson" (braces that JSON.parse
\* rejects), "text" (no braces), "noText" (response.data.response is
\* undefined), "timeout", "refused" (axios.post rejects).  numeric/score:
\* whether parseInt finds a number in the score (JSON field, or the digits
\* after "score" in the text), and which.
OllamaReplies ==
    {[kind |-> "json", numeric |-> TRUE, score |-> v] : v \in {-2, 0, 1, 7, 10, 12}}
    \cup {[kind |-> k, numeric |-> TRUE, score |-> v] : k \in {"text", "brokenJson"}, v \in {0, 7, 12}}
    \cup {[kind |-> k, numeric |-> FALSE, score |-> 0] : k \in {"json", "text", "brokenJson"}}
    \cup {[kind |-> k, numeric |-> FALSE, score |-> 0] : k \in {"noText", "timeout", "refused"}}

\* callOllama rethrows a failure of axios.post as an Error.
callOllamaThrows(reply) == reply.kind \in {"timeout", "refused"}

\* response.match on undefined: the TypeError inside the try is caught, the
\* one of the fallback parsing is not.
parseAnalysisResponseThrows(reply) == reply.kind = "noText"

Clamp(x) == Max(ScoreFloor, Min(ScoreCeiling, x))

\* The score field of parseAnalysisResponse(response).
parseAnalysisResponse(reply) ==
    IF reply.kind = "json"
    THEN Clamp(IF reply.numeric /\ reply.score # 0 THEN reply.score ELSE ScoreIfFalsy)
    ELSE Clamp(IF reply.numeric THEN reply.score ELSE ScoreIfNoMatch)

\* The record analyzeJob(job) resolves with once the backend has replied.
analyzeJob(job, reply, minRelevanceScore) ==
    IF callOllamaThrows(reply) \/ parseAnalysisResponseThrows(reply)
    THEN [job |-> job, relevance_score |-> ScoreOnFailure, is_relevant |-> FALSE, failed |-> TRUE]
    ELSE [job |-> job, relevance_score |-> parseAnalysisResponse(reply),
          is_relevant |-> parseAnalysisResponse(reply) >= minRelevanceScore, failed |-> FALSE]

\* The value analyzeBatch returns.
BatchResult(jobs, analyzedJobs) ==
    LET relevantJobs == SelectSeq(analyzedJobs, LAMBDA j : j.is_relevant)
    IN [all_jobs |-> analyzedJobs, relevant_jobs |-> relevantJobs,
        total_analyzed |-> Len(jobs), relevant_count |-> Len(relevantJobs)]

\* analyzeBatch(jobs) runs up to its first await, or returns at once.
AnalyzeBatchCall ==
    /\ rpc = "callBatch"
    /\ analyzed' = <<>>
    /\ IF bjobs = <<>>
       THEN batch' = BatchResult(bjobs, <<>>) /\ rpc' = "batchReturned"
       ELSE rpc' = "ollama" /\ UNCHANGED batch
    /\ UNCHANGED <<acfg, bjobs, mailIn, mailCalls, mret, apiCfg, apiBody>>
    /\ UNCHANGED scraperVars

\* axios.post of callOllama settles for jobs[i]: analyzeJob returns, the
\* record is pushed, and the loop waits a second or ends.
OllamaSettled ==
    /\ rpc = "ollama"
    /\ \E reply \in OllamaReplies :
        LET job == bjobs[Len(analyzed) + 1]
            analyzedJobs == Append(analyzed, analyzeJob(job, reply, acfg.min_relevance_score))
        IN /\ analyzed' = analyzedJobs
           /\ IF Len(analyzedJobs) < Len(bjobs)
              THEN rpc' = "batchDelay" /\ UNCHANGED batch
              ELSE batch' = BatchResult(bjobs, analyzedJobs) /\ rpc' = "batchReturned"
    /\ UNCHANGED <<acfg, bjobs, mailIn, mailCalls, mret, apiCfg, apiBody>>
    /\ UNCHANGED scraperVars

\* await new Promise(resolve => setTimeout(resolve, 1000)) settles.
BatchDelayDone ==
    /\ rpc = "batchDelay"
    /\ rpc' = "ollama"
    /\ UNCHANGED <<acfg, bjobs, analyzed, batch, mailIn, mailCalls, mret, apiCfg, apiBody>>
    /\ UNCHANGED scraperVars

\* The job lists handed to the analyzer: n distinct records.
BatchInputs == {[k \in 1..n |-> EnrichJob("linkedin", k, TextOld)] : n \in 0..MaxBatch}

\* config.ai_analysis.min_relevance_score
Thresholds == {0, 1, 7}

\* The settings of the mailer, when no mail is involved.
NoMailSettings == [envSendEmpty |-> Null, send_empty_reports |-> "false", template |-> TRUE, transportOk |-> TRUE]

InitAnalyze ==
    /\ ScraperIdle
    /\ rpc = "callBatch"
    /\ acfg \in {[min_relevance_score |-> m, mail |-> NoMailSettings] : m \in Thresholds}
    /\ bjobs \in BatchInputs
    /\ analyzed = <<>> /\ batch = Nothing
    /\ mailIn = Nothing /\ mailCalls = 0 /\ mret = Nothing
    /\ apiCfg = <<>> /\ apiBody = <<>>

NextAnalyze == AnalyzeBatchCall \/ OllamaSettled \/ BatchDelayDone

SpecAnalyze == InitAnalyze /\ [][NextAnalyze]_vars

\* C16: whatever the backend does (JSON reply, other text, timeout,
\* connection refused), the record analyzeJob returns has an integer
\* relevance_score in 1..10; analyzeJob never raises.
C16_ScoreBounded ==
    \A k \in DOMAIN analyzed :
        analyzed[k].relevance_score \in 1..10

\* C17: all_jobs holds one analyzed record per input job, in input order;
\* relevant_jobs is exactly the records of all_jobs whose relevance_score
\* is at least min_relevance_score, in order; relevant_count is its length.
C17_RelevantIsThresholdFilter ==
    rpc = "batchReturned" =>
        /\ Len(batch.all_jobs) = Len(bjobs)
        /\ \A k \in DOMAIN bjobs : batch.all_jobs[k].job = bjobs[k]
        /\ batch.relevant_jobs =
              SelectSeq(batch.all_jobs, LAMBDA j : j.relevance_score >= acfg.min_relevance_score)
        /\ batch.relevant_count = Len(batch.relevant_jobs)

-----------------------------------------------------------------------------
(* EmailService.sendJobReport *)

\* "true", "TRUE", "false", "1"
TextTrue == <<116, 114, 117, 101>>
TextTrueUpper == <<84, 82, 85, 69>>
TextFalse == <<102, 97, 108, 115, 101>>
TextOne == <<49>>

\* What the mailer reads from its surroundings:
\*   envSendEmpty: process.env.EMAIL_SEND_EMPTY_REPORTS (Null: not set);
\*   send_empty_reports: config.email.send_empty_reports, "absent", "false",
\*     "true" or "one" (the number 1);
\*   template: whether config.email.subject_template is a string;
\*   transportOk: whether the SMTP server accepts the message.
MailSettings ==
    [envSendEmpty : {Null, TextTrue, TextTrueUpper, TextFalse, TextOne},
     send_empty_reports : {"absent", "false", "true", "one"},
     template : BOOLEAN, transportOk : BOOLEAN]

\* (process.env.EMAIL_SEND_EMPTY_REPORTS || '').toString().toLowerCase() === 'true'
\*     || !!config.email.send_empty_reports
sendEmpty(m) ==
    \/ toLowerCase(IF Truthy(m.envSendEmpty) THEN m.envSendEmpty ELSE <<>>) = TextTrue
    \/ m.send_empty_reports \in {"true", "one"}

\* const { relevant_jobs, analysis_summary } = analysisResult and
\* relevant_jobs.length throw a TypeError on a malformed argument.
DestructureThrows(in) == ~in.defined \/ ~in.hasJobs

\* generateEmailContent reads the fields of the summary and, for each job,
\* job.ai_analysis.key_skills; generateSubject reads the subject template.
RenderThrows(in, m) ==
    \/ ~in.hasSummary
    \/ \E k \in DOMAIN in.relevant_jobs : in.relevant_jobs[k].failed
    \/ ~m.template

\* jobs.sort((a, b) => b.ai_analysis.relevance_score - a.ai_analysis.relevance_score):
\* the array in descending order of score, jobs of equal score in their
\* former order (Array.prototype.sort is stable).
RECURSIVE sortedJobs(_)
sortedJobs(jobs) ==
    IF jobs = <<>> THEN <<>>
    ELSE LET front == sortedJobs(SubSeq(jobs, 1, Len(jobs) - 1))
             last == jobs[Len(jobs)]
             n == Cardinality({i \in DOMAIN front : front[i].relevance_score >= last.relevance_score})
         IN SubSeq(front, 1, n) \o <<last>> \o SubSeq(front, n + 1, Len(front))

\* The argument once sendJobReport has run up to sendMail or its return:
\* generateEmailContent reads the summary (856-868), then sorts jobs, the
\* caller's relevant_jobs array, in place.
AfterRender(in, m) ==
    IF DestructureThrows(in) \/ (in.relevant_jobs = <<>> /\ ~sendEmpty(m)) \/ ~in.hasSummary
    THEN in
    ELSE [in EXCEPT !.relevant_jobs = sortedJobs(@)]

\* catch (error) { return { success: false, error: error.message } }
ReportFailed_Rethrows == [rpc |-> "reportRaised", mret |-> Nothing]

ReportFailed == [rpc |-> "reportReturned", mret |-> [success |-> FALSE, error |-> TRUE, messageId |-> FALSE]]

\* sendJobReport(analysisResult) runs up to `await this.transporter
\* .sendMail(mailOptions)`, or returns before it.  relevant_jobs is the
\* array of the caller's analysisResult (batch, when the runner calls).
SendJobReportCall ==
    /\ rpc = "callReport"
    /\ IF DestructureThrows(mailIn)
       THEN rpc' = ReportFailed.rpc /\ mret' = ReportFailed.mret /\ UNCHANGED mailCalls
       ELSE IF mailIn.relevant_jobs = <<>> /\ ~sendEmpty(acfg.mail)
       THEN /\ rpc' = "reportReturned"
            /\ mret' = [success |-> TRUE, error |-> FALSE, messageId |-> FALSE]
            /\ UNCHANGED mailCalls
       ELSE IF RenderThrows(mailIn, acfg.mail)
       THEN rpc' = ReportFailed.rpc /\ mret' = ReportFailed.mret /\ UNCHANGED mailCalls
       ELSE rpc' = "sendMail" /\ mailCalls' = mailCalls + 1 /\ UNCHANGED mret
    /\ mailIn' = AfterRender(mailIn, acfg.mail)
    /\ batch' = IF batch = Nothing THEN batch
                ELSE [batch EXCEPT !.relevant_jobs = AfterRender(mailIn, acfg.mail).relevant_jobs]
    /\ UNCHANGED <<acfg, bjobs, analyzed, apiCfg, apiBody>>
    /\ UNCHANGED scraperVars

\* await this.transporter.sendMail(mailOptions) settles.
SendMailDone ==
    /\ rpc = "sendMail"
    /\ IF acfg.mail.transportOk
       THEN /\ rpc' = "reportReturned"
            /\ mret' = [success |-> TRUE, error |-> FALSE, messageId |-> TRUE]
       ELSE rpc' = ReportFailed.rpc /\ mret' = ReportFailed.mret
    /\ UNCHANGED <<acfg, bjobs, analyzed, batch, mailIn, mailCalls, apiCfg, apiBody>>
    /\ UNCHANGED scraperVars

MaxReportJobs == 2

\* An analyzed job as the report needs it, and one without ai_analysis.key_skills.
ReportJob(k, wellFormed) ==
    [job |-> EnrichJob("linkedin", k, TextOld),
     relevance_score |-> IF wellFormed THEN 7 + k ELSE ScoreOnFailure,
     is_relevant |-> TRUE, failed |-> ~wellFormed]

\* The arguments sendJobReport may be given: undefined, an object without
\* relevant_jobs, or lists of jobs with or without a summary.
ReportInputs ==
    {[defined |-> FALSE, hasJobs |-> FALSE, relevant_jobs |-> <<>>, hasSummary |-> FALSE],
     [defined |-> TRUE, hasJobs |-> FALSE, relevant_jobs |-> <<>>, hasSummary |-> TRUE]}
    \cup {[defined |-> TRUE, hasJobs |-> TRUE, relevant_jobs |-> [k \in 1..n |-> ReportJob(k, k # bad)],
           hasSummary |-> h] : n \in 0..MaxReportJobs, bad \in 0..MaxReportJobs, h \in BOOLEAN}

InitReport ==
    /\ ScraperIdle
    /\ rpc = "callReport"
    /\ acfg \in {[min_relevance_score |-> 7, mail |-> m] : m \in MailSettings}
    /\ bjobs = <<>> /\ analyzed = <<>> /\ batch = Nothing
    /\ mailIn \in ReportInputs /\ mailCalls = 0 /\ mret = Nothing
    /\ apiCfg = <<>> /\ apiBody = <<>>

NextReport == SendJobReportCall \/ SendMailDone

SpecReport == InitReport /\ [][NextReport]_vars

\* C19: sendJobReport never raises.  It returns success = false with an
\* error message when the argument is malformed, the rendering fails or the
\* transport fails; success = true after a completed send; and, with no
\* relevant job and empty reports disabled, success = true without a call
\* of the transport.
C19_ReportOutcomeIsValue ==
    LET m == acfg.mail
        wellFormed == mailIn.defined /\ mailIn.hasJobs
        emptyEnabled == \/ m.envSendEmpty \in {TextTrue, TextTrueUpper}
                        \/ m.send_empty_reports \in {"true", "one"}
        skipped == wellFormed /\ mailIn.relevant_jobs = <<>> /\ ~emptyEnabled
        renders == /\ wellFormed /\ mailIn.hasSummary /\ m.template
                   /\ \A k \in DOMAIN mailIn.relevant_jobs : ~mailIn.relevant_jobs[k].failed
    IN /\ rpc # "reportRaised"
       /\ rpc = "reportReturned" =>
            /\ skipped => mret.success /\ mailCalls = 0
            /\ (~skipped /\ ~renders) => ~mret.success /\ mret.error /\ mailCalls = 0
            /\ (~skipped /\ renders /\ m.transportOk) => mret.success /\ mailCalls = 1
            /\ (~skipped /\ renders /\ ~m.transportOk) => ~mret.success /\ mret.error /\ mailCalls = 1

\* A report with two jobs was rendered and handed to a transport that
\* failed: the failure came back as a value.
C19_Witness ==
    /\ rpc = "reportReturned"
    /\ Len(mailIn.relevant_jobs) = 2 /\ mailCalls = 1
    /\ ~acfg.mail.transportOk
    /\ ~mret.success /\ mret.error

-----------------------------------------------------------------------------
(* The one-command runner: scrape, analyze, email. *)

\* const jobs = await scraper.scrapeAllSites(); with no job the runner
\* exits before any analysis.
RunnerScraped ==
    /\ rpc = "runnerScrape"
    /\ rpc' = IF Len(result) = 0 THEN "exit0" ELSE "runnerTestAI"
    /\ UNCHANGED <<acfg, bjobs, analyzed, batch, mailIn, mailCalls, mret, apiCfg, apiBody>>
    /\ UNCHANGED scraperVars

\* await analyzer.testConnection() settles; without a connection the runner
\* sets analyzer.forceFallback, which the analyzer never reads.  Then
\* analyzer.analyzeBatch(jobs) is called.
RunnerAIChecked ==
    /\ rpc = "runnerTestAI"
    /\ \E aiOk \in BOOLEAN :
        /\ rpc' = "callBatch"
        /\ bjobs' = result
    /\ UNCHANGED <<acfg, analyzed, batch, mailIn, mailCalls, mret, apiCfg, apiBody>>
    /\ UNCHANGED scraperVars

\* analyzeBatch returned; the runner builds the EmailService and awaits
\* emailService.testConnection().
RunnerBatchDone ==
    /\ rpc = "batchReturned"
    /\ rpc' = "runnerTestMail"
    /\ UNCHANGED <<acfg, bjobs, analyzed, batch, mailIn, mailCalls, mret, apiCfg, apiBody>>
    /\ UNCHANGED scraperVars

\* const sendIfEmpty = (config.email && config.email.send_empty_reports) === true
sendIfEmpty(m) == m.send_empty_reports = "true"

\* The analysis result as sendJobReport receives it from the runner.
AsReportInput(b) ==
    [defined |-> TRUE, hasJobs |-> TRUE, relevant_jobs |-> b.relevant_jobs, hasSummary |-> TRUE]

\* testConnection settles: a failed connection is thrown; with no relevant
\* job and sendIfEmpty false the email is skipped; otherwise sendJobReport
\* is called.
RunnerMailChecked ==
    /\ rpc = "runnerTestMail"
    /\ \E mailOk \in BOOLEAN :
        IF ~mailOk
        THEN rpc' = "exit1" /\ UNCHANGED mailIn
        ELSE IF Len(batch.relevant_jobs) = 0 /\ ~sendIfEmpty(acfg.mail)
        THEN rpc' = "exit0" /\ UNCHANGED mailIn
        ELSE rpc' = "callReport" /\ mailIn' = AsReportInput(batch)
    /\ UNCHANGED <<acfg, bjobs, analyzed, batch, mailCalls, mret, apiCfg, apiBody>>
    /\ UNCHANGED scraperVars

\* if (!result.success) throw new Error(...); otherwise process.exit(0).
RunnerReportDone ==
    /\ rpc = "reportReturned"
    /\ rpc' = IF mret.success THEN "exit0" ELSE "exit1"
    /\ UNCHANGED <<acfg, bjobs, analyzed, batch, mailIn, mailCalls, mret, apiCfg, apiBody>>
    /\ UNCHANGED scraperVars

MaxScraped == 2

\* The runner after scrapeAllSites has returned 0..MaxScraped jobs.
InitRunner ==
    /\ pc = "done" /\ browser = "closed" /\ context = "open"
    /\ closeCalls = 1 /\ loadCalls = 1 /\ saveCalls = 1
    /\ cookieOps = [load |-> "ok", save |-> "ok"]
    /\ result \in {[k \in 1..n |-> EnrichJob("linkedin", k, TextOld)] : n \in 0..MaxScraped}
    /\ cfg \in {c \in RunConfigs : \A a \in Sites : c.enabled[a]}
    /\ web = RunWeb
    /\ apc = [a \in Sites |-> "fulfilled"]
    /\ aurl = Zeros /\ acards = NoJobs /\ ai = Zeros /\ ajobs = NoJobs
    /\ apage = [a \in Sites |-> "closed"]
    /\ firstSettled = "none"
    /\ etargets = Zeros /\ eindex = Zeros /\ eactive = Zeros /\ ecompleted = Zeros
    /\ eresolved = Zeros /\ epages = Zeros
    /\ fetch = NoJobs /\ fstarted = NoJobs /\ dwrites = NoJobs /\ fhappened = NoJobs
    /\ fnIn = <<>> /\ fnOut = <<>>
    /\ rpc = "runnerScrape"
    /\ acfg \in {[min_relevance_score |-> t, mail |-> m] : t \in {1, 7}, m \in MailSettings}
    /\ bjobs = <<>> /\ analyzed = <<>> /\ batch = Nothing
    /\ mailIn = Nothing /\ mailCalls = 0 /\ mret = Nothing
    /\ apiCfg = <<>> /\ apiBody = <<>>

NextRunner ==
    \/ RunnerScraped \/ RunnerAIChecked
    \/ AnalyzeBatchCall \/ OllamaSettled \/ BatchDelayDone
    \/ RunnerBatchDone \/ RunnerMailChecked
    \/ SendJobReportCall \/ SendMailDone
    \/ RunnerReportDone

SpecRunner == InitRunner /\ [][NextRunner]_vars

\* C18: a run that scraped at least one job and found none relevant sends
\* the email report when the environment sets EMAIL_SEND_EMPTY_REPORTS=true
\* (given a working mail connection), and sends none when neither the
\* environment nor config.email.send_empty_reports enables it.
C18_EmptyReportFollowsSwitches ==
    LET m == acfg.mail
        ranDry == /\ Len(result) >= 1 /\ batch # Nothing
                  /\ batch.relevant_jobs = <<>>
    IN /\ (rpc = "exit0" /\ ranDry /\ m.envSendEmpty = TextTrue) => mailCalls = 1
       /\ (ranDry /\ m.envSendEmpty \notin {TextTrue, TextTrueUpper}
                  /\ m.send_empty_reports \in {"absent", "false"}) => mailCalls = 0

-----------------------------------------------------------------------------
(* The dashboard server: GET /api/config *)

\* '***@***', '***' and 'Failed to get configuration'
MaskUser == <<42, 42, 42, 64, 42, 42, 42>>
MaskPassword == <<42, 42, 42>>
TextFailedConfig == <<70, 97, 105, 108, 101, 100, 32, 116, 111, 32, 103, 101, 116, 32, 99, 111, 110, 102, 105, 103, 117, 114, 97, 116, 105, 111, 110>>

\* "u1", "u2", "p1", "p2", "h1", "h2", "me"
SampleUsers == {Null, <<>>, <<117, 49>>, <<117, 50>>}
SamplePasswords == {<<112, 49>>, <<112, 50>>}
SampleHosts == {<<104, 49>>, <<104, 50>>}
TextMe == <<109, 101>>

\* The configuration objects the server may hold: with an email section
\* (smtp_user undefined, '' or set), or without one.
ApiConfigs ==
    {[hasEmail |-> TRUE, email |-> [smtp_host |-> h, smtp_user |-> u, smtp_password |-> p],
      user_email |-> TextMe] : h \in SampleHosts, u \in SampleUsers, p \in SamplePasswords}
    \cup {[hasEmail |-> FALSE, email |-> Nothing, user_email |-> TextMe]}

safeConfig_PasswordKept(c) ==
    [email |-> [c.email EXCEPT !.smtp_user = IF Truthy(@) THEN MaskUser ELSE <<>>],
     user_email |-> c.user_email]

\* const safeConfig = { ...config, email: { ...config.email,
\*     smtp_user: config.email.smtp_user ? '***@***' : '', smtp_password: '***' } }
safeConfig(c) ==
    [email |-> [c.email EXCEPT !.smtp_user = IF Truthy(@) THEN MaskUser ELSE <<>>,
                               !.smtp_password = MaskPassword],
     user_email |-> c.user_email]

\* res.json(safeConfig); reading config.email.smtp_user of a configuration
\* without an email section throws, and the catch answers 500.
ConfigResponse(c) ==
    IF c.hasEmail
    THEN [status |-> 200, body |-> safeConfig(c)]
    ELSE [status |-> 500, body |-> [error |-> TextFailedConfig]]

\* One GET /api/config request is answered for the i-th configuration.
GetConfig(i) ==
    /\ rpc = "serving"
    /\ apiBody[i] = Nothing
    /\ apiBody' = [apiBody EXCEPT ![i] = ConfigResponse(apiCfg[i])]
    /\ UNCHANGED <<rpc, acfg, bjobs, analyzed, batch, mailIn, mailCalls, mret, apiCfg>>
    /\ UNCHANGED scraperVars

\* Two servers side by side, each with a configuration of its own.
InitApi ==
    /\ ScraperIdle
    /\ rpc = "serving"
    /\ acfg = Nothing /\ bjobs = <<>> /\ analyzed = <<>> /\ batch = Nothing
    /\ mailIn = Nothing /\ mailCalls = 0 /\ mret = Nothing
    /\ apiCfg \in {<<c, d>> : c \in ApiConfigs, d \in ApiConfigs}
    /\ apiBody = <<Nothing, Nothing>>

NextApi == \E i \in 1..2 : GetConfig(i)

SpecApi == InitApi /\ [][NextApi]_vars

\* The strings of a response body.
BodyStrings(r) ==
    IF r.status = 200
    THEN {r.body.email.smtp_host, r.body.email.smtp_user, r.body.email.smtp_password,
          r.body.user_email}
    ELSE {r.body.error}

\* Two configurations with the same fields except the password, or except
\* the value of a user that is non-empty in both.
DifferOnlyInSecret(c, d) ==
    /\ c.hasEmail /\ d.hasEmail
    /\ \/ d = [c EXCEPT !.email.smtp_password = d.email.smtp_password]
       \/ /\ Truthy(c.email.smtp_user) /\ Truthy(d.email.smtp_user)
          /\ d = [c EXCEPT !.email.smtp_user = d.email.smtp_user]

\* C20: the answers of GET /api/config for two configurations that differ
\* only in email.smtp_password, or only in the value of a non-empty
\* email.smtp_user, are identical; the password and the value of the user
\* appear nowhere in an answer.
C20_ConfigSecretsMasked ==
    /\ (apiBody[1] # Nothing /\ apiBody[2] # Nothing /\ DifferOnlyInSecret(apiCfg[1], apiCfg[2]))
            => apiBody[1] = apiBody[2]
    /\ \A i \in 1..2 : (apiBody[i] # Nothing /\ apiCfg[i].hasEmail) =>
            \A t \in BodyStrings(apiBody[i]) :
                /\ ~Contains(t, apiCfg[i].email.smtp_password)
                /\ Truthy(apiCfg[i].email.smtp_user) => ~Contains(t, apiCfg[i].email.smtp_user)

\* Both configurations were served; they differ in the password and in
\* nothing else.
C20_Witness ==
    /\ apiBody[1] # Nothing /\ apiBody[2] # Nothing
    /\ apiCfg[1].hasEmail /\ apiCfg[2].hasEmail
    /\ apiCfg[1].email.smtp_password # apiCfg[2].email.smtp_password
    /\ DifferOnlyInSecret(apiCfg[1], apiCfg[2])
    /\ Truthy(apiCfg[1].email.smtp_user)
    /\ apiBody[1].status = 200

-----------------------------------------------------------------------------
(* One adapter called on its own *)

\* Where a call of the adapter on a scraper with context ctx stands at its
\* first await: `this.context.newPage()` on the null context of a scraper
\* that was constructed and not initialized throws a TypeError, outside the
\* try block, and the promise of the adapter rejects.
StandaloneFirstAwait(a, c, ctx) ==
    IF FirstAwait(a, c) = "newPage" /\ ctx = "null" THEN "rejected" ELSE FirstAwait(a, c)

\* const jobs = await scraper.scrapeIndeed(): the adapter of site a is
\* called by something other than scrapeAllSites.
StandaloneCall(a) ==
    /\ pc = "off"
    /\ apc[a] = "idle"
    /\ apc' = [apc EXCEPT ![a] = StandaloneFirstAwait(a, cfg, context)]
    /\ firstSettled' = IF Settled(a)' THEN FirstSettledWith(a) ELSE firstSettled
    /\ UNCHANGED <<aggVars, envVars, enrichVars, fnVars, appVars, aurl, acards, ai, ajobs, apage>>

\* The site whose adapter SystemTester.testScraping calls.
StandaloneSite == "indeed"

\* A JobScraper as constructed (browser and context null), or one whose
\* initialize() has completed; no scrapeAllSites call is in progress.
InitStandalone ==
    /\ pc = "off"
    /\ \/ /\ browser = "null" /\ context = "null" /\ loadCalls = 0
          /\ cookieOps = [load |-> "none", save |-> "none"]
       \/ /\ browser = "open" /\ context = "open" /\ loadCalls = 1
          /\ cookieOps = [load |-> "ok", save |-> "none"]
    /\ closeCalls = 0 /\ saveCalls = 0 /\ result = <<>>
    /\ cfg \in RunConfigs
    /\ web = RunWeb
    /\ apc = [a \in Sites |-> "idle"]
    /\ aurl = Zeros /\ acards = NoJobs /\ ai = Zeros /\ ajobs = NoJobs
    /\ apage = [a \in Sites |-> "none"]
    /\ firstSettled = "none"
    /\ etargets = Zeros /\ eindex = Zeros /\ eactive = Zeros /\ ecompleted = Zeros
    /\ eresolved = Zeros /\ epages = Zeros
    /\ fetch = NoJobs /\ fstarted = NoJobs /\ dwrites = NoJobs /\ fhappened = NoJobs
    /\ fnIn = <<>> /\ fnOut = <<>>
    /\ AppIdle

NextStandalone ==
    \/ StandaloneCall(StandaloneSite)
    \/ NewPageDone(StandaloneSite)
    \/ TryUrl(StandaloneSite)
    \/ ListCards(StandaloneSite)
    \/ ExtractCard(StandaloneSite)
    \/ PaceDone(StandaloneSite)
    \/ \E k \in 1..(MaxCards + 1) : FetchNavigate(StandaloneSite, k)
    \/ \E k \in 1..(MaxCards + 1) : FetchExtract(StandaloneSite, k)
    \/ ClosePageDone(StandaloneSite)

SpecStandalone == InitStandalone /\ [][NextStandalone]_vars

\* C21: scrapeIndeed() called on a newly constructed JobScraper, with no
\* initialize() before it, returns a list of records and raises no error.
C21_StandaloneAdapterReturns ==
    (pc = "off" /\ context = "null" /\ apc[StandaloneSite] # "idle")
        => apc[StandaloneSite] = "fulfilled"

-----------------------------------------------------------------------------
(* Termination and page use of one enrichment call (SpecEnrich) *)

\* C22: the promise of enrichJobsWithDescriptions resolves for every input
\* list and every mix of fetch outcomes, given that every started fetch
\* settles: while the call has not resolved, a step of it remains to be
\* taken.
C22_EnrichmentTerminates ==
    apc[EnrichSite] \in {"callEnrich", "enrich"} => ENABLED NextEnrich

\* C23: during one call of enrichJobsWithDescriptions with cap c, the
\* number of description pages opened and not yet closed never exceeds c,
\* whatever the mix of successful and failing fetches.
C23_OpenPagesBounded == epages[EnrichSite] <= concurrencyOf(cfg)

\* C24: in one call of enrichJobsWithDescriptions, fetchJobDescription is
\* started exactly once for each record of targets, the capped prefix of
\* the list, and never for a record after it, whatever the order in which
\* the fetches complete: never twice at any time, and once each when the
\* promise resolves.
C24_FetchedExactlyOnce ==
    LET a == EnrichSite
    IN apc[a] # "callEnrich" =>
         /\ \A k \in DOMAIN fstarted[a] :
               /\ fstarted[a][k] <= 1
               /\ k > targetsLength(cfg, ajobs[a]) => fstarted[a][k] = 0
               /\ fetch[a][k] # "none" => fstarted[a][k] = 1
         /\ eresolved[a] > 0 =>
               \A k \in 1..targetsLength(cfg, ajobs[a]) : fstarted[a][k] = 1

\* A call over three records with a prefix of two resolved: the first fetch
\* failed to navigate, the second gave its text, the third was never started.
C24_Witness ==
    LET a == EnrichSite
    IN /\ eresolved[a] = 1
       /\ Len(ajobs[a]) = 3 /\ targetsLength(cfg, ajobs[a]) = 2
       /\ fstarted[a] = <<1, 1, 0>>
       /\ fhappened[a] = <<"gotoFails", "selText", "none">>

\* C25: the promise of enrichJobsWithDescriptions is resolved at most
\* once, and when it is resolved every record of the capped prefix has had
\* its description written, with the text fetched for it or with the
\* sentinel, and no fetch is in flight.
C25_ResolvedOnceAfterAllWritten ==
    LET a == EnrichSite
    IN /\ eresolved[a] <= 1
       /\ eresolved[a] = 1 =>
            /\ InFlight(a) = 0
            /\ \A k \in 1..targetsLength(cfg, ajobs[a]) :
                  /\ dwrites[a][k] = 1
                  /\ ajobs[a][k].description \in
                        {DescriptionNotAvailable, OwnSelectorDescription(ajobs[a][k].link),
                         OwnBodyDescription(ajobs[a][k].link)}

\* The promise resolved after three fetches under a cap of two: one page
\* could not be opened, one gave its text through the fallback.
C25_Witness ==
    LET a == EnrichSite
    IN /\ eresolved[a] = 1
       /\ targetsLength(cfg, ajobs[a]) = 3 /\ concurrencyOf(cfg) = 2
       /\ \E k1, k2 \in 1..3 :
            /\ fhappened[a][k1] = "newPageFails"
            /\ ajobs[a][k1].description = DescriptionNotAvailable
            /\ fhappened[a][k2] = "bodyText"
            /\ ajobs[a][k2].description = OwnBodyDescription(ajobs[a][k2].link)

-----------------------------------------------------------------------------
(* Order of the steps of a whole run (Spec) *)

\* C26: scrapeAllSites starts all three adapters before it waits for any
\* of them, and merges, saves the cookies and closes the session only after
\* every adapter has settled, whether the first to settle failed or
\* succeeded.
C26_FireThenSettleAll ==
    /\ (\E a \in Sites : apc[a] # "idle") => (\A a \in Sites : apc[a] # "idle")
    /\ pc = "waiting" => \A a \in Sites : apc[a] # "idle"
    /\ (pc \in {"saveCookies", "cleanup", "cleanupThrow", "done"}
            \/ saveCalls > 0 \/ closeCalls > 0 \/ result # <<>>)
          => \A a \in Sites : Settled(a)

\* The adapter that settled first had failed; the run went on until another
\* adapter had fetched its descriptions and returned its record.
C26_Witness ==
    /\ pc = "done"
    /\ apc[firstSettled] = "rejected"
    /\ \E b \in Sites : apc[b] = "fulfilled" /\ eresolved[b] = 1
    /\ result # <<>>

\* The merged list has been deduplicated.
Deduplicated == pc \in {"saveCookies", "cleanup", "done"}

\* C27, as stated: description fetches are started only after the merged
\* list has been deduplicated, and none is made for a record that the
\* deduplication discards.
C27_FetchOnlyAfterDedup ==
    /\ \A a \in Sites : \A k \in DOMAIN fstarted[a] : fstarted[a][k] > 0 => Deduplicated
    /\ pc = "done" => \A a \in Sites : \A k \in DOMAIN fstarted[a] :
          (apc[a] = "fulfilled" /\ fstarted[a][k] > 0)
              => \E i \in DOMAIN result : KeyOf(result[i]) = KeyOf(ajobs[a][k])
                                            /\ result[i].source = SourceTag(a)

\* C27, amended: each adapter has the descriptions of its own records
\* fetched before it returns, so every description fetch is started and
\* settled while the aggregator waits for the adapters, and the merged list
\* is deduplicated only afterwards; a record that the deduplication
\* discards has had its description fetched like any other.
C27_FetchBeforeDedup ==
    /\ \A a \in Sites : InFlight(a) > 0 => pc = "waiting" /\ apc[a] = "enrich"
    /\ Deduplicated => \A a \in Sites :
          /\ Len(fstarted[a]) = Len(ajobs[a])
          /\ \A k \in DOMAIN fstarted[a] :
                k <= targetsLength(cfg, ajobs[a]) => fstarted[a][k] = 1 /\ fetch[a][k] = "done"

\* The run returned LinkedIn's record; the record of a later adapter with
\* the same key was discarded after its description had been fetched.
C27_Witness ==
    /\ pc = "done"
    /\ \E a \in Sites : \E k \in DOMAIN ajobs[a] :
          /\ apc[a] = "fulfilled" /\ fstarted[a][k] = 1
          /\ ajobs[a][k].description # <<>>
          /\ \E i \in DOMAIN result :
                KeyOf(result[i]) = KeyOf(ajobs[a][k]) /\ result[i].source # SourceTag(a)

\* C28: whatever operation of an enabled adapter fails (opening its page,
\* a navigation, listing the cards, extracting a card, closing its page),
\* the adapter settles successfully and the records it had collected reach
\* the merged result, each under its key.
C28_AdapterFailureKeepsRecords ==
    /\ \A a \in Sites : apc[a] # "rejected"
    /\ pc = "done" => \A a \in Sites : \A k \in DOMAIN ajobs[a] :
          \E i \in DOMAIN result : KeyOf(result[i]) = KeyOf(ajobs[a][k])

\* Every search URL of site a was tried and none showed the results container.
AllUrlsFailed(a) == aurl[a] >= NumUrls(a) /\ apc[a] # "nav"

\* C29: an adapter tries its search URLs strictly in list order, starting
\* with the first, goes to no further URL once the probe for the results
\* container has succeeded, and when the probe fails or the navigation
\* throws on every URL it returns an empty list without listing or
\* extracting a card and without calling the enricher.
C29_UrlFallbackInOrder ==
    /\ [](\A a \in Sites :
            /\ aurl[a] <= NumUrls(a)
            /\ aurl[a] > 0 => apc[a] \in {"nav", "closePage", "fulfilled", "rejected"}
            /\ AllUrlsFailed(a) =>
                  /\ apc[a] \in {"closePage", "fulfilled", "rejected"}
                  /\ acards[a] = <<>> /\ ai[a] = 0 /\ ajobs[a] = <<>>
                  /\ fstarted[a] = <<>> /\ epages[a] = 0
                  /\ ValueOf(a) = <<>>)
    /\ [][\A a \in Sites :
            /\ (apc[a] # "nav" /\ apc'[a] = "nav") => apc[a] = "newPage" /\ aurl'[a] = 1
            /\ (apc[a] = "nav" /\ apc'[a] = "nav") => aurl'[a] \in {aurl[a], aurl[a] + 1}
            /\ (apc[a] = "nav" /\ apc'[a] = "list") => aurl'[a] = 0
            /\ (apc[a] = "nav" /\ apc'[a] = "closePage") => aurl[a] = NumUrls(a) /\ aurl'[a] = aurl[a]
            /\ apc[a] # "nav" => aurl'[a] = aurl[a] \/ apc'[a] = "nav"]_vars

\* One adapter gave up after its last search URL and returned the empty
\* list, while another found its results on a later URL and delivered a
\* record.
C29_Witness ==
    /\ pc = "done"
    /\ \E a, b \in Sites :
          /\ AllUrlsFailed(a) /\ apc[a] = "fulfilled" /\ ajobs[a] = <<>> /\ fstarted[a] = <<>>
          /\ apc[b] = "fulfilled" /\ ajobs[b] # <<>>
    /\ result # <<>>

-----------------------------------------------------------------------------
(* Pacing of the card loop (SpecCards) *)

\* C30: within one adapter the cards are processed one at a time in index
\* order, and the loop goes from one card to the next only through the
\* inter-card delay, also when the card was dropped or its extraction
\* raised an error.
C30_PacedBetweenCards ==
    [][\A a \in Sites :
          ai'[a] # ai[a] =>
              /\ ai'[a] = ai[a] + 1
              /\ ai'[a] < LoopBound(acards[a], cfg) => apc[a] = "pace" /\ apc'[a] = "cards"]_vars

-----------------------------------------------------------------------------
(* What one enrichment call writes (SpecEnrich) *)

\* A record without its description.
Undescribed(r) == [r EXCEPT !.description = <<>>]

\* C31: enrichJobsWithDescriptions changes only the description of records
\* in the capped prefix, writes it once per such record, leaves every other
\* field of every record as it was, neither adds, removes nor reorders
\* records, and changes no record after the call has resolved.
C31_EnrichmentFrame ==
    /\ [](/\ Len(ajobs[EnrichSite]) = Len(fnIn)
          /\ \A k \in DOMAIN fnIn : Undescribed(ajobs[EnrichSite][k]) = Undescribed(fnIn[k])
          /\ apc[EnrichSite] # "callEnrich" =>
                \A k \in DOMAIN fnIn :
                   /\ dwrites[EnrichSite][k] <= 1
                   /\ dwrites[EnrichSite][k] = 0 => ajobs[EnrichSite][k] = fnIn[k]
                   /\ k > targetsLength(cfg, fnIn) => dwrites[EnrichSite][k] = 0
                   /\ (eresolved[EnrichSite] > 0 /\ k <= targetsLength(cfg, fnIn))
                         => dwrites[EnrichSite][k] = 1)
    /\ [][eresolved[EnrichSite] > 0 => ajobs'[EnrichSite] = ajobs[EnrichSite]]_vars

\* A call over three records that carried a description resolved: the two
\* records of the prefix have a new description, the third its old one.
C31_Witness ==
    LET a == EnrichSite
    IN /\ eresolved[a] = 1
       /\ Len(fnIn) = 3 /\ targetsLength(cfg, fnIn) = 2
       /\ \A k \in 1..3 : fnIn[k].description = TextOld
       /\ dwrites[a] = <<1, 1, 0>>
       /\ ajobs[a][1].description # TextOld /\ ajobs[a][2].description # TextOld
       /\ ajobs[a][3] = fnIn[3]

\* The description a record gets from what its own page did.
DescriptionFrom(link, what) ==
    CASE what = "selText" -> OwnSelectorDescription(link)
      [] what = "bodyText" -> OwnBodyDescription(link)
      [] OTHER -> DescriptionNotAvailable

\* C32: in whatever order the concurrent fetches complete, each capped
\* record whose fetch has completed holds the description fetched from its
\* own link, and no record holds the text of another record's page.
C32_WriteBackByIdentity ==
    LET a == EnrichSite
    IN apc[a] # "callEnrich" =>
         \A k \in DOMAIN fetch[a] :
            /\ fetch[a][k] = "done" =>
                  ajobs[a][k].description = DescriptionFrom(ajobs[a][k].link, fhappened[a][k])
            /\ fetch[a][k] # "done" => ajobs[a][k].description = fnIn[k].description
            /\ \A j \in DOMAIN fetch[a] : j # k =>
                  ajobs[a][k].description \notin
                      {OwnSelectorDescription(ajobs[a][j].link), OwnBodyDescription(ajobs[a][j].link)}

\* The fetch of the second record completed while that of the first was
\* still running, and the second record has the text of its own page.
C32_Witness ==
    LET a == EnrichSite
    IN /\ apc[a] = "enrich" /\ Len(fetch[a]) >= 2
       /\ fetch[a][1] = "extract" /\ fetch[a][2] = "done"
       /\ fhappened[a][2] = "selText"
       /\ ajobs[a][2].description = OwnSelectorDescription(ajobs[a][2].link)
       /\ ajobs[a][1].description = fnIn[1].description

-----------------------------------------------------------------------------
(* Cookies in a whole run (Spec) *)

\* C33: a failure of loadCookies or of saveCookies raises nothing, does not
\* keep the adapters from running, and leaves the list scrapeAllSites
\* returns what the outputs of the adapters make it, as in a run whose
\* cookie operations succeeded.
C33_CookieFailureHarmless ==
    /\ cookieOps.load = "failed" =>
          /\ pc # "raised"
          /\ \A a \in Sites : apc[a] # "idle"
    /\ cookieOps.save = "failed" => pc \in {"cleanup", "done"}
    /\ pc = "done" => result = uniqueJobs(allJobs)

\* Neither cookie operation worked, and the run returned a record.
C33_Witness ==
    /\ pc = "done"
    /\ cookieOps = [load |-> "failed", save |-> "failed"]
    /\ result # <<>>

\* C34: in a run the cookies are loaded once, after the context has been
\* created and before any adapter is started or opens a page, and are saved
\* exactly once, after all three adapters have settled and before the
\* browser is closed.
C34_CookieOrder ==
    /\ loadCalls <= 1 /\ saveCalls <= 1
    /\ loadCalls = 1 => context = "open"
    /\ (\E a \in Sites : apc[a] # "idle" \/ apage[a] # "none")
          => loadCalls = 1 /\ cookieOps.load # "none"
    /\ saveCalls = 1 => \A a \in Sites : Settled(a)
    /\ (closeCalls > 0 \/ browser = "closed") => saveCalls = 1 /\ cookieOps.save # "none"
    /\ pc = "done" => loadCalls = 1 /\ saveCalls = 1

\* A run loaded the cookies, ran an adapter on its page, saved the cookies
\* and closed the browser.
C34_Witness ==
    /\ pc = "done"
    /\ loadCalls = 1 /\ saveCalls = 1 /\ closeCalls = 1 /\ browser = "closed"
    /\ cookieOps = [load |-> "ok", save |-> "ok"]
    /\ \E a \in Sites : apage[a] = "closed" /\ apc[a] = "fulfilled"
    /\ result # <<>>

-----------------------------------------------------------------------------
(* The bound on the cards of a results page (SpecCards) *)

\* C35: an adapter examines only the first min(cards found,
\* max_jobs_per_site) cards of the page, so it has at most
\* max_jobs_per_site records, and its records are in the order of their
\* cards on the page.
C35_CardBound ==
    \A a \in Sites :
        /\ \A k \in CardsSeen(a) : k <= Len(acards[a]) /\ k <= cfg.max_jobs_per_site
        /\ Len(ajobs[a]) <= cfg.max_jobs_per_site
        /\ \A j \in DOMAIN ajobs[a] :
              /\ ajobs[a][j].scraped_at + 1 \in CardsSeen(a)
              /\ Undescribed(ajobs[a][j])
                    = CardJob(a, acards[a][ajobs[a][j].scraped_at + 1], ajobs[a][j].scraped_at)
              /\ \A i \in 1..(j - 1) : ajobs[a][i].scraped_at < ajobs[a][j].scraped_at

\* The page showed more cards than max_jobs_per_site, the card after the
\* bound would have been kept, and the adapter returned the record of the
\* cards within the bound.
C35_Witness ==
    \E a \in Sites :
        /\ apc[a] = "fulfilled"
        /\ Len(acards[a]) > cfg.max_jobs_per_site
        /\ CardKept(a, acards[a][Len(acards[a])], cfg)
        /\ ~CardThrows(a, acards[a][Len(acards[a])], cfg)
        /\ Len(ajobs[a]) = cfg.max_jobs_per_site

-----------------------------------------------------------------------------
(* The counters of the worker pool (SpecEnrich) *)

\* C36: in every state of one enrichJobsWithDescriptions call active lies
\* between 0 and concurrency, index is at most the number of capped
\* records, and index = active + completed: every fetch started is either
\* in flight or counted as completed, and none is counted twice.
C36_PoolCounters ==
    /\ eactive[EnrichSite] >= 0
    /\ eactive[EnrichSite] <= concurrencyOf(cfg)
    /\ eindex[EnrichSite] <= targetsLength(cfg, fnIn)
    /\ eindex[EnrichSite] = eactive[EnrichSite] + ecompleted[EnrichSite]
    /\ eactive[EnrichSite] = InFlight(EnrichSite)
    /\ ecompleted[EnrichSite]
          = Cardinality({k \in DOMAIN fetch[EnrichSite] : fetch[EnrichSite][k] \in {"done", "rejected"}})
    /\ \A k \in DOMAIN fstarted[EnrichSite] :
          fstarted[EnrichSite][k] = IF k <= eindex[EnrichSite] THEN 1 ELSE 0

\* The pool is draining: every capped record has been taken, some fetches
\* are counted as completed and fewer than concurrency are still in flight.
C36_Witness ==
    /\ apc[EnrichSite] = "enrich"
    /\ eindex[EnrichSite] = targetsLength(cfg, fnIn)
    /\ ecompleted[EnrichSite] >= 2
    /\ eactive[EnrichSite] >= 1
    /\ eactive[EnrichSite] < concurrencyOf(cfg)

-----------------------------------------------------------------------------
(* The enrichment pools of the enabled adapters side by side (SpecPools) *)

MaxPoolJobs == 2

\* Every choice of enabled sites and every detail_concurrency up to
\* MaxConcCfg (0: not set).
PoolConfigs ==
    {[enabled |-> [a \in Sites |-> a \notin off], max_jobs_per_site |-> MaxPoolJobs,
      max_detail_fetch |-> DefaultDetailFetch, detail_concurrency |-> c,
      primary |-> <<TextDelhi>>] : off \in SUBSET Sites, c \in 0..MaxConcCfg}

\* scrapeAllSites awaits Promise.allSettled; every enabled adapter has
\* MaxPoolJobs records and is about to call enrichJobsWithDescriptions, the
\* disabled ones have returned [].
InitPools ==
    /\ pc = "waiting" /\ browser = "open" /\ context = "open"
    /\ closeCalls = 0 /\ loadCalls = 1 /\ saveCalls = 0 /\ result = <<>>
    /\ cookieOps = [load |-> "ok", save |-> "none"]
    /\ cfg \in PoolConfigs
    /\ web = [cards |-> "none", nav |-> {"ok"},
              extract |-> {[sel |-> "text", body |-> "text", closeOk |-> TRUE]}]
    /\ apc = [a \in Sites |-> IF cfg.enabled[a] THEN "callEnrich" ELSE FirstAwait(a, cfg)]
    /\ aurl = Zeros /\ acards = NoJobs /\ ai = Zeros
    /\ ajobs = [a \in Sites |-> IF cfg.enabled[a]
                                THEN [k \in 1..MaxPoolJobs |-> EnrichJob(a, k, <<>>)] ELSE <<>>]
    /\ apage = [a \in Sites |-> IF cfg.enabled[a] THEN "open" ELSE "none"]
    /\ firstSettled = LET off == SelectSeq(SiteOrder, LAMBDA a : ~cfg.enabled[a])
                      IN IF off = <<>> THEN "none" ELSE off[1]
    /\ etargets = Zeros /\ eindex = Zeros /\ eactive = Zeros /\ ecompleted = Zeros
    /\ eresolved = Zeros /\ epages = Zeros
    /\ fetch = NoJobs /\ fstarted = NoJobs /\ dwrites = NoJobs /\ fhappened = NoJobs
    /\ fnIn = <<>> /\ fnOut = <<>>
    /\ AppIdle

NextPools ==
    \/ \E a \in Sites : EnrichCall(a)
    \/ \E a \in Sites : \E k \in 1..MaxPoolJobs : FetchNavigate(a, k)
    \/ \E a \in Sites : \E k \in 1..MaxPoolJobs : FetchExtract(a, k)

SpecPools == InitPools /\ [][NextPools]_vars

\* The description fetches in flight in the whole run.
InFlightInRun == InFlight("linkedin") + InFlight("indeed") + InFlight("naukri")

\* C37: across a whole run the number of description fetches in flight
\* never exceeds detail_concurrency times the number of enabled adapters.
C37_RunWideFetchBound ==
    InFlightInRun <= concurrencyOf(cfg) * Cardinality({a \in Sites : cfg.enabled[a]})

\* All three adapters are enabled and each has its pool full, while
\* records still wait in every one of them.
C37_Witness ==
    /\ \A a \in Sites : cfg.enabled[a] /\ eindex[a] < etargets[a]
    /\ InFlightInRun = concurrencyOf(cfg) * Cardinality(Sites)

-----------------------------------------------------------------------------
(* An error while a card is extracted (SpecCards) *)

\* C38: an error raised while one card is extracted drops only that card:
\* the records of earlier cards are kept, the remaining cards up to the
\* bound are still processed, and the enricher is still called on the
\* resulting list.
C38_CardErrorIsolated ==
    /\ [](\A a \in Sites :
            (cfg.enabled[a] /\ apc[a] \notin {"list", "cards", "pace"}) =>
                /\ ai[a] = LoopBound(acards[a], cfg)
                /\ \A k \in 1..LoopBound(acards[a], cfg) :
                      (CardKept(a, acards[a][k], cfg) /\ ~CardThrows(a, acards[a][k], cfg))
                          => \E j \in DOMAIN ajobs[a] : ajobs[a][j].scraped_at = k - 1)
    /\ [][\A a \in Sites :
            (/\ apc[a] = "cards"
             /\ CardThrows(a, acards[a][ai[a] + 1], cfg)
             /\ (apc'[a] # apc[a] \/ ai'[a] # ai[a])) =>
                /\ ajobs'[a] = ajobs[a]
                /\ ai'[a] = ai[a] + 1
                /\ IF ai'[a] < LoopBound(acards[a], cfg)
                   THEN apc'[a] = "cards"
                   ELSE /\ apc'[a] = "enrich"
                        /\ etargets'[a] = targetsLength(cfg, ajobs[a])
                        /\ eindex'[a] = Min(concurrencyOf(cfg), etargets'[a])]_vars

\* The first card of a page raised an error, the second was extracted
\* afterwards, and the adapter returned its record with a description.
C38_Witness ==
    \E a \in Sites :
        /\ apc[a] = "fulfilled"
        /\ Len(acards[a]) = 2 /\ cfg.max_jobs_per_site = 2
        /\ CardThrows(a, acards[a][1], cfg)
        /\ Len(ajobs[a]) = 1
        /\ ajobs[a][1].scraped_at = 1
        /\ ajobs[a][1].description # <<>>

-----------------------------------------------------------------------------
(* The search page of an adapter (Spec) *)

\* C39: the search page an enabled adapter has opened is closed exactly
\* once before the adapter settles, on every path (no results container,
\* normal completion, an error during navigation, extraction or
\* enrichment): the adapter settles only as the outcome of the one awaited
\* page.close() of its finally block, the page is not closed before that,
\* nothing happens to the adapter or its page afterwards, and an adapter
\* that has returned has its page closed.
C39_SearchPageClosedOnce ==
    /\ [](\A a \in Sites :
            /\ (cfg.enabled[a] /\ apc[a] = "fulfilled") => apage[a] = "closed"
            /\ apage[a] = "closed" => Settled(a))
    /\ [][\A a \in Sites :
            /\ (apage[a] = "open" /\ ~Settled(a) /\ apc'[a] \in {"fulfilled", "rejected"})
                  => apc[a] = "closePage"
            /\ apc[a] = "closePage" => apc'[a] \in {"closePage", "fulfilled", "rejected"}
            /\ Settled(a) => apc'[a] = apc[a] /\ apage'[a] = apage[a]]_vars

\* One adapter found no results container on any URL, another completed
\* with a described record; both have returned with their pages closed.
C39_Witness ==
    \E a, b \in Sites :
        /\ AllUrlsFailed(a) /\ apc[a] = "fulfilled" /\ apage[a] = "closed"
        /\ apc[b] = "fulfilled" /\ apage[b] = "closed"
        /\ Len(ajobs[b]) = 1 /\ eresolved[b] = 1 /\ ajobs[b][1].description # <<>>

-----------------------------------------------------------------------------
(* The analysis result around sendJobReport (SpecRunner) *)

\* C40: sendJobReport leaves the analysisResult it is given unchanged,
\* the order of relevant_jobs included, so what the runner writes to disk
\* after the report has relevant_jobs in the analyzer's order, the order
\* of all_jobs.
C40_ReportLeavesInputUnchanged ==
    /\ [](batch # Nothing => IsSubSeq(batch.relevant_jobs, batch.all_jobs))
    /\ [][(rpc \in {"callReport", "sendMail"}) => (mailIn' = mailIn /\ batch' = batch)]_vars

====
